---- MODULE Spec2Model ----
(***************************************************************************)
(* Model of the resume analyser's client-side core:                        *)
(*   - the Upload route's analysis pipeline (handleSubmit, handleAnalyze), *)
(*   - the puterApiSlice endpoints it calls through the gateway accessor.  *)
(***************************************************************************)
EXTENDS Integers, Sequences, FiniteSets, TLC

\* Number of handleAnalyze invocations a behaviour may start.
MaxInvocations == 2

\* Number of checkAuthStatus thunks in flight at once.
MaxAuthChecks == 2

\* Number of keys the key-value endpoints are called with.
MaxKeys == 2
MaxGetCalls == 2
MaxStemLen == 2
MaxFiles == 2
MaxWipes == 2

\* init's polling period and its timeout, in milliseconds.
PollIntervalMs == 100
InitTimeoutMs == 10000

VARIABLES
    windowPuter,    \* TRUE iff window.puter is present (what getPuter reads)
    file,           \* Upload: useState<File | null>
    isProcessing,   \* Upload: useState(false)
    statusText,     \* Upload: useState('')
    location,       \* the router's current location
    alerts,         \* the alert() messages of the latest handleSubmit call
    inv,            \* the handleAnalyze invocations started so far, in order
    kv,             \* the external key-value store: key -> stored value
    nextUuid,       \* source of generateUUID's fresh ids
    delegated,      \* number of calls the pipeline's endpoints made on each capability function
    puterReady,     \* puterSlice: state.puterReady
    auth,           \* puterSlice: state.auth
    call,           \* the endpoint call whose queryFn is running or has returned
    timer,          \* init's polling interval and timeout, and the time init has polled for
    authChecks,     \* the checkAuthStatus thunks in flight
    queryCache,     \* the cache entry of kvList({ pattern: "resume:*" })
    lastRead,       \* what the latest kvList read gave its subscriber, and from where
    lastCheck,      \* how the checkAuthStatus thunk that finished last ended
    getCache,       \* the cache entries of kvGet, one per key
    getCalls,       \* number of puter.kv.get calls made for each key
    lastGet,        \* what the latest kvGet call gave its caller
    context,        \* the global execution context the accessor runs in
    accessed,       \* what the latest call of the gateway accessor returned
    raster,         \* the convertPdfToImage call in progress or finished
    effectDeps,     \* the dependencies the mounted route's guard effect last ran with
    resumeLoading,  \* Resume: isLoadingAny
    wipeFiles,      \* WipeApp: the files of the fsReadir query
    wipe            \* WipeApp: isDeleting, deleteStatus and the handleDelete call

uploadVars == <<file, isProcessing, statusText, location, alerts, inv, kv, nextUuid,
                delegated>>
cacheVars == <<puterReady, auth, call, timer, authChecks, lastCheck>>
listVars == <<queryCache, lastRead>>
queryVars == <<getCache, getCalls, lastGet>>
libVars == <<context, accessed, raster>>
routeVars == <<effectDeps, resumeLoading>>
wipeVars == <<wipeFiles, wipe>>
extraVars == <<queryVars, libVars, routeVars, wipeVars>>
vars == <<windowPuter, uploadVars, cacheVars, listVars, extraVars>>

-----------------------------------------------------------------------------
(* Values *)

\* A string the form can hold, as a sequence of characters.
Acme == <<"A", "c", "m", "e">>
Blank == <<" ", " ">>
Engineer == <<"E", "n", "g">>
BuildThings == <<"B", "u", "i", "l", "d", " ", "t", "h", "i", "n", "g", "s">>

CompanyNames == {<<>>, Blank, Acme}
JobTitles == {<<>>, Engineer}
JobDescriptions == {Blank, BuildThings}

NoFile == [present |-> FALSE, name |-> ""]
PdfFile == [present |-> TRUE, name |-> "cv.pdf"]
Files == {NoFile, PdfFile}

\* A thrown value: an Error carrying a message, or something that is no Error.
Err(m) == [isError |-> TRUE, message |-> m]
NonErr(m) == [isError |-> FALSE, message |-> m]

\* What a capability function resolves to.
Falsy == [truthy |-> FALSE, shape |-> "undefined", payload |-> ""]
FSItem(path) == [truthy |-> TRUE, shape |-> "fsitem", payload |-> path]
AIString(text) == [truthy |-> TRUE, shape |-> "string", payload |-> text]
AIParts(text) == [truthy |-> TRUE, shape |-> "parts", payload |-> text]
True == [truthy |-> TRUE, shape |-> "boolean", payload |-> "true"]

\* How a delegated call settles.
Resolve(v) == [kind |-> "resolve", value |-> v, err |-> NonErr("")]
Reject(e) == [kind |-> "reject", value |-> Falsy, err |-> e]
NoCall == [kind |-> "none", value |-> Falsy, err |-> NonErr("")]

\* A delegated call may throw an Error or a value that is no Error.
Rejections == {Reject(Err("Network down")), Reject(NonErr("raw"))}

\* The feedback texts the AI may answer with.
GoodFeedbackText == "{\"overallScore\":85}"
BadScoreText == "{\"overallScore\":150}"
NotJsonText == "Sorry, I cannot"
AiTexts == {GoodFeedbackText, BadScoreText, NotJsonText}

UploadOutcomes(f) == {Resolve(FSItem(f.name)), Resolve(Falsy)} \cup Rejections
ChatOutcomes ==
    {Resolve(AIString(x)) : x \in AiTexts} \cup {Resolve(AIParts(x)) : x \in AiTexts}
        \cup {Resolve(Falsy)} \cup Rejections
KvSetOutcomes == {Resolve(True)} \cup Rejections

-----------------------------------------------------------------------------
(* Pure helpers *)

\* i18n lookup: the text registered under a key.
t(key) == <<key>>

IsSpace(c) == c = " "

RECURSIVE TrimStart(_)
TrimStart(s) ==
    IF s # <<>> /\ IsSpace(Head(s)) THEN TrimStart(Tail(s)) ELSE s

RECURSIVE TrimEnd(_)
TrimEnd(s) ==
    IF s # <<>> /\ IsSpace(s[Len(s)]) THEN TrimEnd(SubSeq(s, 1, Len(s) - 1)) ELSE s

\* String.prototype.trim
Trim(s) == TrimEnd(TrimStart(s))

Last(s) == s[Len(s)]

\* The gateway accessor: the injected object, or the null sentinel.
getPuter == IF windowPuter THEN "puter" ELSE "null"

\* The test every caller makes on the accessor's result: if (puter) ...
HasPuter == getPuter # "null"

\* Results of a queryFn: { data } or { error }.
Data(v) == [isError |-> FALSE, data |-> v, error |-> "", errorShape |-> "none"]
Failure(msg) == [isError |-> TRUE, data |-> Falsy, error |-> msg, errorShape |-> "string"]
FailureObject(msg) ==
    [isError |-> TRUE, data |-> Falsy, error |-> msg, errorShape |-> "object"]

NotAvailable == "Puter.js not available"

\* Mutant: the endpoint dereferences the gateway without testing it.
QueryFn_NoGuard(available, outcome, fallback) ==
    IF ~available THEN Failure("Cannot read properties of null")
    ELSE IF outcome.kind = "resolve" THEN Data(outcome.value)
    ELSE Failure(IF outcome.err.isError THEN outcome.err.message ELSE fallback)

\* Mutant: the endpoint awaits the delegated call outside any try block, so
\* the exception leaves the queryFn.
QueryFn_NoCatch(available, outcome, fallback) ==
    IF ~available THEN Failure(NotAvailable)
    ELSE IF outcome.kind = "resolve" THEN Data(outcome.value)
    ELSE [isError |-> TRUE, data |-> Falsy, error |-> outcome.err.message,
          errorShape |-> "thrown"]

\* The body shared by the delegating endpoints: the gateway check, the
\* delegated call, and the catch that turns an exception into { error }.
QueryFn(available, outcome, fallback) ==
    IF ~available THEN Failure(NotAvailable)
    ELSE IF outcome.kind = "resolve" THEN Data(outcome.value)
    ELSE Failure(IF outcome.err.isError THEN outcome.err.message ELSE fallback)

Endpoints ==
    {"signIn", "signOut", "refreshUser", "init", "fsWrite", "fsRead", "fsReadir",
     "fsUpload", "fsDelete", "aiChat", "aiFeedback", "aiImg2txt", "kvGet", "kvSet",
     "kvDelete", "kvList", "kvFlush"}

\* The capability function an endpoint delegates to.
CapabilityFn(ep) ==
    CASE ep = "signIn" -> "auth.signIn"
      [] ep = "signOut" -> "auth.signOut"
      [] ep = "refreshUser" -> "auth.getUser"
      [] ep = "fsWrite" -> "fs.write"
      [] ep = "fsRead" -> "fs.read"
      [] ep = "fsReadir" -> "fs.readdir"
      [] ep = "fsUpload" -> "fs.upload"
      [] ep = "fsDelete" -> "fs.delete"
      [] ep = "aiChat" -> "ai.chat"
      [] ep = "aiFeedback" -> "ai.chat"
      [] ep = "aiImg2txt" -> "ai.img2txt"
      [] ep = "kvGet" -> "kv.get"
      [] ep = "kvSet" -> "kv.set"
      [] ep = "kvDelete" -> "kv.delete"
      [] ep = "kvList" -> "kv.list"
      [] ep = "kvFlush" -> "kv.flush"

\* The message an endpoint reports for a thrown value that is no Error.
Fallback(ep) ==
    CASE ep = "signIn" -> "Sign in failed"
      [] ep = "signOut" -> "Sign out failed"
      [] ep = "refreshUser" -> "Failed to refresh user"
      [] ep = "fsWrite" -> "Write failed"
      [] ep = "fsRead" -> "Read failed"
      [] ep = "fsReadir" -> "Read failed"
      [] ep = "fsUpload" -> "Upload failed"
      [] ep = "fsDelete" -> "Delete failed"
      [] ep = "aiChat" -> "AI chat failed"
      [] ep = "aiFeedback" -> "AI feedback failed"
      [] ep = "aiImg2txt" -> "Image to text failed"
      [] ep = "kvGet" -> "KV get failed"
      [] ep = "kvSet" -> "KV set failed"
      [] ep = "kvDelete" -> "KV delete failed"
      [] ep = "kvList" -> "KV list failed"
      [] ep = "kvFlush" -> "KV flush failed"

fsUpload(available, outcome) == QueryFn(available, outcome, Fallback("fsUpload"))
aiFeedback(available, outcome) == QueryFn(available, outcome, Fallback("aiFeedback"))
kvSet(available, outcome) == QueryFn(available, outcome, Fallback("kvSet"))

\* unwrap(): the data of a fulfilled call; a failed call throws its error
\* payload, which is the message string and no Error object.
Unwrap(res) ==
    IF res.isError
    THEN [threw |-> TRUE, thrown |-> NonErr(res.error), value |-> Falsy]
    ELSE [threw |-> FALSE, thrown |-> NonErr(""), value |-> res.data]

\* The feedback field: the '' placeholder, or what JSON.parse returned.
EmptyFeedback == [kind |-> "string", overallScore |-> 0]
FeedbackObject(score) == [kind |-> "object", overallScore |-> score]

\* JSON.parse on the feedback text: the parsed value, or a SyntaxError.
JSONParse(text) ==
    IF text = GoodFeedbackText
    THEN [threw |-> FALSE, value |-> FeedbackObject(85), thrown |-> NonErr("")]
    ELSE IF text = BadScoreText
    THEN [threw |-> FALSE, value |-> FeedbackObject(150), thrown |-> NonErr("")]
    ELSE [threw |-> TRUE, value |-> EmptyFeedback,
          thrown |-> Err("Unexpected token S in JSON")]

\* JSON.stringify of the record: its members in insertion order.
JSONStringify(d) ==
    << <<"id", d.id>>, <<"resumePath", d.resumePath>>, <<"imagePath", d.imagePath>>,
       <<"companyName", d.companyName>>, <<"jobTitle", d.jobTitle>>,
       <<"jobDescription", d.jobDescription>>, <<"feedback", d.feedback>> >>

\* Member k of a serialized record.
JsonField(json, k) ==
    LET i == CHOOSE j \in 1..Len(json) : json[j][1] = k IN json[i][2]

\* Mutant: the key lacks the generated id.
ResumeKey_NoId(uuid) == <<"resume:", 0>>

\* The key template `resume:${uuid}`.
ResumeKey(uuid) == <<"resume:", uuid>>

\* convertPdfToImage: a result with the image file, or one without it.
ConvertResults(f) ==
    { [imageUrl |-> "blob:image", file |-> [present |-> TRUE, name |-> "cv.png"],
       error |-> ""],
      [imageUrl |-> "", file |-> NoFile, error |-> "Failed to convert PDF"] }

\* Mutant: the catch reads error.message without the instanceof test.
CatchStatus_NoInstanceof(error) == <<"Error: ", error.message>>

\* Mutant: the catch always reports the fallback phrase.
CatchStatus_Generic(error) == <<"Error: ", "An unexpected error occurred">>

\* The message of the outer catch.
CatchStatus(error) ==
    <<"Error: ", IF error.isError THEN error.message ELSE "An unexpected error occurred">>

-----------------------------------------------------------------------------
(* puterSlice and the puterApiSlice endpoints *)

NullUser == [truthy |-> FALSE, shape |-> "null", payload |-> ""]
Alice == [truthy |-> TRUE, shape |-> "user", payload |-> "alice"]

\* Mutant: setUser stores the user and leaves the flag set.
setUser_KeepFlag(user) == [user |-> user, isAuthenticated |-> TRUE]

\* The reducer setUser: the user and whether there is one.
setUser(user) == [user |-> user, isAuthenticated |-> user.truthy]

\* dispatch(checkAuthStatus()): without the gateway the thunk rejects at once,
\* otherwise it awaits puter.auth.isSignedIn().
CheckAuthStarted(checks) ==
    IF HasPuter THEN Append(checks, [pc |-> "isSignedIn", awaited |-> FALSE]) ELSE checks

\* The end of a checkAuthStatus thunk: fulfilled, or rejected with a payload;
\* the capability functions it called, what they gave and what was thrown.
NoCheck ==
    [status |-> "none", payload |-> "", calls |-> <<>>, signedIn |-> "unknown",
     user |-> Falsy, cause |-> "none", thrown |-> NonErr("")]
CheckFulfilled(calls, signedIn, user) ==
    [status |-> "fulfilled", payload |-> "", calls |-> calls, signedIn |-> signedIn,
     user |-> user, cause |-> "none", thrown |-> NonErr("")]
CheckAuthMessage(err) == IF err.isError THEN err.message ELSE "Failed to check auth status"
CheckRejected(calls, signedIn, err) ==
    [status |-> "rejected", payload |-> CheckAuthMessage(err), calls |-> calls,
     signedIn |-> signedIn, user |-> Falsy, cause |-> "thrown", thrown |-> err]
CheckUnavailable ==
    [status |-> "rejected", payload |-> NotAvailable, calls |-> <<>>, signedIn |-> "unknown",
     user |-> Falsy, cause |-> "unavailable", thrown |-> NonErr("")]

\* The end of a thunk is seen by the caller that kept the promise dispatch
\* returned; the endpoints dispatch the thunk and drop the promise.
Seen(check, end) == IF check.awaited THEN end ELSE lastCheck

RemoveAt(s, k) == SubSeq(s, 1, k - 1) \o SubSeq(s, k + 1, Len(s))

NoCallYet ==
    [ep |-> "none", phase |-> "idle", available |-> FALSE, made |-> <<>>,
     dispatched |-> <<>>, result |-> Data(Falsy)]
TimersOff == [interval |-> FALSE, timeout |-> FALSE, now |-> 0]

CacheInit ==
    /\ puterReady = FALSE
    /\ auth = [user |-> NullUser, isAuthenticated |-> FALSE]
    /\ call = NoCallYet
    /\ timer = TimersOff
    /\ authChecks = <<>>
    /\ lastCheck = NoCheck

\* A value the capability function of an endpoint resolves to.
ValueOf(ep) ==
    IF ep = "refreshUser" THEN Alice
    ELSE IF ep \in {"aiChat", "aiFeedback"} THEN AIString(GoodFeedbackText)
    ELSE IF ep \in {"kvSet", "kvDelete", "kvFlush"} THEN True
    ELSE FSItem("cv.pdf")

AllRejections == Rejections \cup {Reject(Err(""))}
DelegatedOutcomes(ep) == {Resolve(ValueOf(ep)), Resolve(Falsy)} \cup AllRejections

\* The data an endpoint returns for what its capability function resolved to.
EndpointData(ep, value) ==
    IF ep \in {"signIn", "signOut", "refreshUser", "fsDelete"} THEN Falsy
    ELSE IF ep = "fsRead" THEN [truthy |-> TRUE, shape |-> "objectURL", payload |-> "blob:"]
    ELSE value

CallFree == call.phase \in {"idle", "settled"}

\* The tags an endpoint's cached result provides, and those an endpoint
\* invalidates when it settles.
ProvidesTags(ep) == IF ep = "kvList" THEN {"AuthStatus"} ELSE {}
InvalidatesTags(ep) == IF ep \in {"signIn", "signOut", "init"} THEN {"AuthStatus"} ELSE {}

NoCacheEntry == [status |-> "uninitialized", data |-> Falsy]
NoRead == [source |-> "none", result |-> Data(Falsy)]

\* The kvList entry after endpoint ep has settled: removed when ep invalidates
\* a tag the entry provides.
Invalidated(ep, entry) ==
    IF InvalidatesTags(ep) \cap ProvidesTags("kvList") # {} THEN NoCacheEntry ELSE entry

\* The invalidation that follows a step of endpoint ep, when the step settles
\* the call.
InvalidateIf(settles, ep) ==
    queryCache' = IF settles THEN Invalidated(ep, queryCache) ELSE queryCache

\* Mutant: the endpoint dispatches whether or not its delegated call failed.
Dispatches_OnFailure(ep, ok) ==
    CASE ep = "signIn" -> <<"checkAuthStatus">>
      [] ep \in {"signOut", "refreshUser"} -> <<"setUser">>
      [] OTHER -> <<>>

\* What an endpoint dispatches once its delegated call has settled: signIn the
\* checkAuthStatus thunk, signOut and refreshUser the setUser reducer, and only
\* when the call was fulfilled.
Dispatches(ep, ok) ==
    IF ~ok THEN <<>>
    ELSE CASE ep = "signIn" -> <<"checkAuthStatus">>
           [] ep \in {"signOut", "refreshUser"} -> <<"setUser">>
           [] OTHER -> <<>>

\* An endpoint other than init starts: its queryFn reads the gateway and either
\* returns the failure or makes the delegated call.
Initiate(ep) ==
    /\ CallFree
    /\ ep # "init"
    /\ call' = IF ~HasPuter
               THEN [ep |-> ep, phase |-> "settled", available |-> FALSE, made |-> <<>>,
                     dispatched |-> <<>>,
                     result |-> QueryFn(FALSE, NoCall, Fallback(ep))]
               ELSE [ep |-> ep, phase |-> "delegated", available |-> TRUE,
                     made |-> <<CapabilityFn(ep)>>, dispatched |-> <<>>,
                     result |-> Data(Falsy)]
    /\ InvalidateIf(~HasPuter, ep)
    /\ UNCHANGED <<windowPuter, puterReady, auth, timer, authChecks, lastCheck, uploadVars,
                   extraVars, lastRead>>

\* The delegated call of the running endpoint settles; signIn, signOut and
\* refreshUser dispatch after a fulfilled call.
DelegatedSettles(outcome) ==
    /\ call.phase = "delegated"
    /\ call.ep = "signIn" => Len(authChecks) < MaxAuthChecks
    /\ LET ep == call.ep
           shaped == IF outcome.kind = "resolve"
                     THEN Resolve(EndpointData(ep, outcome.value)) ELSE outcome
           ok == outcome.kind = "resolve"
       IN
       /\ call' = [call EXCEPT !.phase = "settled",
                               !.dispatched = Dispatches(ep, ok),
                               !.result = QueryFn(TRUE, shaped, Fallback(ep))]
       /\ authChecks' = IF Dispatches(ep, ok) = <<"checkAuthStatus">>
                        THEN CheckAuthStarted(authChecks) ELSE authChecks
       /\ UNCHANGED lastCheck
       /\ auth' = IF Dispatches(ep, ok) = <<"setUser">>
                  THEN setUser(IF ep = "signOut" THEN NullUser ELSE outcome.value)
                  ELSE auth
    /\ InvalidateIf(TRUE, call.ep)
    /\ UNCHANGED <<windowPuter, puterReady, timer, uploadVars, extraVars, lastRead>>

\* init starts: with the gateway there it marks puter ready and checks the
\* auth status; without it, it arms the polling interval and the timeout.
InitiateInit ==
    /\ CallFree
    /\ Len(authChecks) < MaxAuthChecks
    /\ IF HasPuter
       THEN /\ puterReady' = TRUE
            /\ authChecks' = CheckAuthStarted(authChecks)
            /\ UNCHANGED lastCheck
            /\ call' = [ep |-> "init", phase |-> "settled", available |-> TRUE,
                        made |-> <<>>, dispatched |-> <<"setPuter", "checkAuthStatus">>,
                        result |-> Data(Falsy)]
            /\ UNCHANGED timer
       ELSE /\ call' = [ep |-> "init", phase |-> "polling", available |-> FALSE,
                        made |-> <<>>, dispatched |-> <<>>, result |-> Data(Falsy)]
            /\ timer' = [interval |-> TRUE, timeout |-> TRUE, now |-> 0]
            /\ UNCHANGED <<puterReady, authChecks, lastCheck>>
    /\ InvalidateIf(HasPuter, "init")
    /\ UNCHANGED <<windowPuter, auth, uploadVars, extraVars, lastRead>>

\* Mutant: a successful poll clears the interval but leaves the timeout armed.
InitPollTick_NoClearTimeout ==
    /\ timer.interval
    /\ timer.now + PollIntervalMs <= InitTimeoutMs
    /\ HasPuter => Len(authChecks) < MaxAuthChecks
    /\ IF HasPuter
       THEN /\ timer' = [interval |-> FALSE, timeout |-> TRUE, now |-> 0]
            /\ puterReady' = TRUE
            /\ authChecks' = CheckAuthStarted(authChecks)
            /\ UNCHANGED lastCheck
            /\ call' = [call EXCEPT !.phase = "settled",
                                    !.dispatched = <<"setPuter", "checkAuthStatus">>,
                                    !.result = Data(Falsy)]
       ELSE /\ timer' = [timer EXCEPT !.now = @ + PollIntervalMs]
            /\ UNCHANGED <<puterReady, authChecks, lastCheck, call>>
    /\ InvalidateIf(HasPuter, "init")
    /\ UNCHANGED <<windowPuter, auth, uploadVars, extraVars, lastRead>>

\* The polling interval fires: one more period has passed; when the gateway is
\* there both timers are cleared and init resolves.
InitPollTick ==
    /\ timer.interval
    /\ timer.now + PollIntervalMs <= InitTimeoutMs
    /\ HasPuter => Len(authChecks) < MaxAuthChecks
    /\ IF HasPuter
       THEN /\ timer' = TimersOff
            /\ puterReady' = TRUE
            /\ authChecks' = CheckAuthStarted(authChecks)
            /\ UNCHANGED lastCheck
            /\ call' = [call EXCEPT !.phase = "settled",
                                    !.dispatched = <<"setPuter", "checkAuthStatus">>,
                                    !.result = Data(Falsy)]
       ELSE /\ timer' = [timer EXCEPT !.now = @ + PollIntervalMs]
            /\ UNCHANGED <<puterReady, authChecks, lastCheck, call>>
    /\ InvalidateIf(HasPuter, "init")
    /\ UNCHANGED <<windowPuter, auth, uploadVars, extraVars, lastRead>>

\* Mutant: the timeout is armed with a delay shorter than the polling window.
InitTimeoutFires_Early ==
    /\ timer.timeout
    /\ timer' = [interval |-> FALSE, timeout |-> FALSE, now |-> InitTimeoutMs]
    /\ call' = IF ~HasPuter
               THEN [call EXCEPT !.phase = "settled",
                                 !.result = FailureObject(
                                     "Puter.js failed to load within 10 seconds")]
               ELSE call
    /\ InvalidateIf(~HasPuter, "init")
    /\ UNCHANGED <<windowPuter, puterReady, auth, authChecks, lastCheck, uploadVars,
                   extraVars, lastRead>>

\* The timeout fires, once no poll is due before it: the interval is cleared,
\* and init resolves with the timeout error if the gateway is still missing.
InitTimeoutFires ==
    /\ timer.timeout
    /\ timer.now + PollIntervalMs >= InitTimeoutMs
    /\ timer' = [interval |-> FALSE, timeout |-> FALSE, now |-> InitTimeoutMs]
    /\ call' = IF ~HasPuter
               THEN [call EXCEPT !.phase = "settled",
                                 !.result = FailureObject(
                                     "Puter.js failed to load within 10 seconds")]
               ELSE call
    /\ InvalidateIf(~HasPuter, "init")
    /\ UNCHANGED <<windowPuter, puterReady, auth, authChecks, lastCheck, uploadVars,
                   extraVars, lastRead>>

\* Mutant: the catch of the thunk clears the user before it rejects.
IsSignedInSettles_ClearsOnThrow(k, outcome) ==
    /\ authChecks[k].pc = "isSignedIn"
    /\ IF outcome.kind = "resolve" /\ outcome.value.truthy
       THEN /\ authChecks' = [authChecks EXCEPT ![k].pc = "getUser"]
            /\ UNCHANGED <<auth, lastCheck>>
       ELSE /\ authChecks' = RemoveAt(authChecks, k)
            /\ auth' = setUser(NullUser)
            /\ lastCheck' = Seen(authChecks[k],
                                 IF outcome.kind = "resolve"
                                 THEN CheckFulfilled(<<"auth.isSignedIn">>, "false", Falsy)
                                 ELSE CheckRejected(<<"auth.isSignedIn">>, "unknown",
                                                    outcome.err))
    /\ UNCHANGED <<windowPuter, puterReady, call, timer, uploadVars, extraVars, listVars>>

\* checkAuthStatus: puter.auth.isSignedIn() settles.
IsSignedInSettles(k, outcome) ==
    /\ authChecks[k].pc = "isSignedIn"
    /\ IF outcome.kind = "resolve" /\ outcome.value.truthy
       THEN /\ authChecks' = [authChecks EXCEPT ![k].pc = "getUser"]
            /\ UNCHANGED <<auth, lastCheck>>
       ELSE /\ authChecks' = RemoveAt(authChecks, k)
            /\ auth' = IF outcome.kind = "resolve" THEN setUser(NullUser) ELSE auth
            /\ lastCheck' = Seen(authChecks[k],
                                 IF outcome.kind = "resolve"
                                 THEN CheckFulfilled(<<"auth.isSignedIn">>, "false", Falsy)
                                 ELSE CheckRejected(<<"auth.isSignedIn">>, "unknown",
                                                    outcome.err))
    /\ UNCHANGED <<windowPuter, puterReady, call, timer, uploadVars, extraVars, listVars>>

\* checkAuthStatus: puter.auth.getUser() settles.
GetUserSettles(k, outcome) ==
    /\ authChecks[k].pc = "getUser"
    /\ authChecks' = RemoveAt(authChecks, k)
    /\ auth' = IF outcome.kind = "resolve" THEN setUser(outcome.value) ELSE auth
    /\ lastCheck' = Seen(authChecks[k],
                         IF outcome.kind = "resolve"
                         THEN CheckFulfilled(<<"auth.isSignedIn", "auth.getUser">>, "true",
                                             outcome.value)
                         ELSE CheckRejected(<<"auth.isSignedIn", "auth.getUser">>, "true",
                                            outcome.err))
    /\ UNCHANGED <<windowPuter, puterReady, call, timer, uploadVars, extraVars, listVars>>

\* store.dispatch(setUser({ user }))
DispatchSetUser(user) ==
    /\ auth' = setUser(user)
    /\ UNCHANGED <<windowPuter, puterReady, call, timer, authChecks, lastCheck, uploadVars,
                   extraVars, listVars>>

\* Mutant: setPuter also resets the auth state.
DispatchSetPuter_ResetsAuth(ready) ==
    /\ puterReady' = ready
    /\ auth' = setUser(NullUser)
    /\ UNCHANGED <<windowPuter, call, timer, authChecks, lastCheck, uploadVars, extraVars,
                   listVars>>

\* store.dispatch(setPuter(ready))
DispatchSetPuter(ready) ==
    /\ puterReady' = ready
    /\ UNCHANGED <<windowPuter, auth, call, timer, authChecks, lastCheck, uploadVars,
                   extraVars, listVars>>

\* await store.dispatch(checkAuthStatus()), by a caller that awaits one thunk
\* before it dispatches the next: without the gateway the thunk has rejected
\* by the time dispatch returns, otherwise it awaits isSignedIn.
DispatchCheckAuthStatus ==
    /\ Len(authChecks) < MaxAuthChecks
    /\ \A k \in 1..Len(authChecks) : ~authChecks[k].awaited
    /\ IF HasPuter
       THEN /\ authChecks' = Append(authChecks, [pc |-> "isSignedIn", awaited |-> TRUE])
            /\ UNCHANGED lastCheck
       ELSE /\ lastCheck' = CheckUnavailable
            /\ UNCHANGED authChecks
    /\ UNCHANGED <<windowPuter, puterReady, auth, call, timer, uploadVars, extraVars,
                   listVars>>

-----------------------------------------------------------------------------
(* The Upload route *)

DelegatedFns == {"fs.upload", "ai.chat", "kv.set"}

\* One more call on capability function f, made only when the gateway is there.
Delegate(f) ==
    delegated' = IF HasPuter THEN [delegated EXCEPT ![f] = @ + 1] ELSE delegated

\* The fixed order of the pipeline's steps.
StepOrder ==
    <<"fsUpload1", "convert", "fsUpload2", "kvSet1", "aiFeedback", "parse", "kvSet2",
      "navigate">>

NoData ==
    [id |-> 0, resumePath |-> "", imagePath |-> "", companyName |-> <<>>,
     jobTitle |-> <<>>, jobDescription |-> <<>>, feedback |-> EmptyFeedback]

\* The locals of a handleAnalyze invocation suspended at its first await.
NewInvocation(companyName, jobTitle, jobDescription, f) ==
    [pc |-> "fsUpload1",            \* the await the invocation is suspended at
     gateway |-> <<HasPuter>>,   \* whether getPuter returned the object, per endpoint call
     companyName |-> companyName, jobTitle |-> jobTitle,
     jobDescription |-> jobDescription, file |-> f,
     uploadedFileResult |-> Falsy, imageFile |-> NoFile, uploadedImageResult |-> Falsy,
     uuid |-> 0, data |-> NoData,
     exit |-> "running",            \* running, success, abort or throw
     failedAt |-> "",               \* the step that aborted or threw
     steps |-> <<"fsUpload1">>,     \* the steps started, in order
     resolved |-> <<>>,             \* the steps that produced a usable result
     kvSets |-> <<>>]               \* the kvSet arguments issued, in order

\* What getPuter returned to the endpoint call the invocation awaits.
Available(i) == Last(inv[i].gateway)

\* Mutant: the form stays mounted while the pipeline runs.
FormRendered_Always == location = <<"/upload">>

\* What the page shows in its <h2>, and whether the form is mounted.
Heading == IF isProcessing THEN statusText ELSE t("upload.subheading")
FormRendered == location = <<"/upload">> /\ ~isProcessing

-----------------------------------------------------------------------------
(* app/lib/puter.ts: the gateway accessor *)

\* The values window.puter is given, the falsy ones among them, and the global
\* contexts: one without a window, and a window with each value of puter
\* ("undefined" is a window without the property).
JsFalsy == {"undefined", "null", "false", "0"}
PuterValues == JsFalsy \cup {"puterA", "puterB"}
Truthy(v) == v \notin JsFalsy
NoWindow == [window |-> FALSE, puter |-> "undefined"]
WindowWith(v) == [window |-> TRUE, puter |-> v]
GlobalContexts == {NoWindow} \cup {WindowWith(v) : v \in PuterValues}

Returned(v) == [kind |-> "return", value |-> v]
Thrown(e) == [kind |-> "throw", value |-> e]
NotAccessed == [kind |-> "none", value |-> "undefined"]

\* Mutant: window.puter is read without asking whether window exists.
Accessor_NoTypeof(ctx) ==
    IF ~ctx.window THEN Thrown("ReferenceError")
    ELSE Returned(IF Truthy(ctx.puter) THEN ctx.puter ELSE "null")

\* getPuter(): window.puter when there is a window and the value is truthy,
\* null otherwise.
Accessor(ctx) ==
    Returned(IF ctx.window /\ Truthy(ctx.puter) THEN ctx.puter ELSE "null")

\* The context in which window.puter is, or is not, the capability object.
ContextOf(injected) == IF injected THEN WindowWith("puterA") ELSE WindowWith("undefined")

-----------------------------------------------------------------------------
(* app/lib/pdf2Img.ts: convertPdfToImage *)

\* File names are sequences of characters.
Dot == "."
PdfSuffixes == {<<Dot, p, d, f>> : p \in {"p", "P"}, d \in {"d", "D"}, f \in {"f", "F"}}
OtherSuffixes == {<<>>, <<"p", "d", "f">>, <<Dot, "p", "d">>, <<Dot, "p", "d", "f", "x">>,
                  <<Dot, "p", "n", "g">>}
RECURSIVE SeqsUpTo(_, _)
SeqsUpTo(chars, n) ==
    IF n = 0 THEN {<<>>}
    ELSE LET shorter == SeqsUpTo(chars, n - 1) IN
         shorter \cup {Append(q, c) : q \in shorter, c \in chars}
Stems == SeqsUpTo({"a", Dot}, MaxStemLen)
FileNames == {stem \o suffix : stem \in Stems, suffix \in PdfSuffixes \cup OtherSuffixes}

Lower(c) ==
    CASE c = "P" -> "p"
      [] c = "D" -> "d"
      [] c = "F" -> "f"
      [] OTHER -> c

\* Mutant: the suffix is matched in lower case only.
StripPdf_CaseSensitive(name) ==
    IF Len(name) >= 4 /\ SubSeq(name, Len(name) - 3, Len(name)) = <<Dot, "p", "d", "f">>
    THEN SubSeq(name, 1, Len(name) - 4)
    ELSE name

\* name.replace(/\.pdf$/i, "")
StripPdf(name) ==
    IF /\ Len(name) >= 4
       /\ [k \in 1..4 |-> Lower(name[Len(name) - 4 + k])] = <<Dot, "p", "d", "f">>
    THEN SubSeq(name, 1, Len(name) - 4)
    ELSE name

PngName(name) == StripPdf(name) \o <<Dot, "p", "n", "g">>

\* The results of the rasterizer.
NoError == [defined |-> FALSE, text |-> <<>>]
ErrorText(parts) == [defined |-> TRUE, text |-> parts]
NoResult == [kind |-> "none", imageUrl |-> "", file |-> [present |-> FALSE, name |-> <<>>],
             error |-> NoError]
Converted(name) ==
    [kind |-> "return", imageUrl |-> "blob:image",
     file |-> [present |-> TRUE, name |-> PngName(name)], error |-> NoError]
NotConverted(parts) ==
    [kind |-> "return", imageUrl |-> "", file |-> [present |-> FALSE, name |-> <<>>],
     error |-> ErrorText(parts)]
CanvasNotSupported == NotConverted(<<"Canvas 2D context not supported">>)
NoBlob == NotConverted(<<"Failed to create image blob">>)

\* Mutant: no catch around the steps, the exception leaves the function.
ConversionFailed_NoCatch(err) ==
    [kind |-> "throw", imageUrl |-> "", file |-> [present |-> FALSE, name |-> <<>>],
     error |-> ErrorText(<<err>>)]

\* catch (err): the generic failure carrying the exception's description.
ConversionFailed(err) == NotConverted(<<"Failed to convert PDF: ", err>>)

\* What the awaited steps throw, as String(err) gives it.
ReadErrors == {"Error: File read error"}
LoadErrors == {"Error: Invalid PDF", ""}
RenderErrors == {"Error: Rendering failed"}

RasterIdle == [pc |-> "idle", name |-> <<>>, calls |-> <<>>, context2d |-> "unknown",
               result |-> NoResult]

-----------------------------------------------------------------------------
(* app/routes: the routes and their guards *)

\* A location is the sequence of the parts of its URL.
Home == <<"/">>
WipeRoute == <<"/wipe">>
UploadRoute == <<"/upload">>
ResumeIds == {"a1", "b2"}
ResumeRoute(id) == <<"/resume/", id>>
GuardedRoutes == {Home, WipeRoute} \cup {ResumeRoute(id) : id \in ResumeIds}
Targets == GuardedRoutes \cup {UploadRoute}

\* "/auth?next=" followed by the route, and location.search.split("next=")[1].
AuthRoute(route) == <<"/auth?next=">> \o route
NextOf(loc) == Tail(loc)

\* The guard effect of the mounted route has not run yet.
NotRun == [ran |-> FALSE, deps |-> <<>>]

-----------------------------------------------------------------------------
(* app/routes/wipe.tsx: the state of WipeApp *)

\* The paths fsReadir may list, and the lists it may return.
WipePaths == {"a.pdf", "b.png", "c.txt"}
NoRepeat(list) == \A j, k \in 1..Len(list) : list[j] = list[k] => j = k
FileLists == {list \in SeqsUpTo(WipePaths, MaxFiles) : NoRepeat(list)}

\* useState(false), useState(""), and no handleDelete called yet.
WipeIdle ==
    [pc |-> "idle",             \* the await handleDelete is suspended at
     isDeleting |-> FALSE,
     deleteStatus |-> <<>>,
     list |-> <<>>,             \* the files the running call iterates over
     index |-> 0,               \* the position of the file being deleted
     available |-> FALSE,       \* what getPuter gave the endpoint awaited
     log |-> <<>>,              \* the endpoint calls of the latest handleDelete
     failed |-> <<>>,           \* for each settled call, whether it failed
     exit |-> "none",           \* how the latest handleDelete ended
     clearTimer |-> FALSE,      \* the setTimeout that clears the status
     runs |-> 0]

\* kvGet(key): the keys read, and the entry of a key nobody has asked for.
GetKeys == {ResumeKey(1), ResumeKey(2)}
NoQueryEntry == [status |-> "uninitialized", result |-> Data(Falsy), cached |-> FALSE,
                 available |-> FALSE]
NoGet == [key |-> "none", status |-> "uninitialized", result |-> Data(Falsy),
          requested |-> FALSE]
QueryInit ==
    /\ getCache = [k \in GetKeys |-> NoQueryEntry]
    /\ getCalls = [k \in GetKeys |-> 0]
    /\ lastGet = NoGet

Init ==
    /\ windowPuter \in BOOLEAN
    /\ file = NoFile
    /\ isProcessing = FALSE
    /\ statusText = <<>>
    /\ location = <<"/upload">>
    /\ alerts = <<>>
    /\ inv = <<>>
    /\ kv = <<>>
    /\ nextUuid = 1
    /\ delegated = [f \in DelegatedFns |-> 0]
    /\ CacheInit
    /\ queryCache = NoCacheEntry
    /\ lastRead = NoRead
    /\ QueryInit
    /\ context = ContextOf(windowPuter)
    /\ accessed = NotAccessed
    /\ raster = RasterIdle
    /\ effectDeps = NotRun
    /\ resumeLoading = FALSE
    /\ wipeFiles = <<>>
    /\ wipe = WipeIdle

\* The host page injects or removes window.puter.
SetWindowPuter ==
    /\ windowPuter' = ~windowPuter
    /\ context' = ContextOf(~windowPuter)
    /\ UNCHANGED <<uploadVars, cacheVars, listVars, queryVars, accessed, raster, routeVars,
                   wipeVars>>

handleFileSelect(f) ==
    /\ FormRendered
    /\ file' = f
    /\ UNCHANGED <<windowPuter, isProcessing, statusText, location, alerts, inv,
                   kv, nextUuid, delegated, cacheVars, extraVars, listVars>>

\* handleAnalyze up to its first await: the flag, the status, the first upload.
StartAnalyze(companyName, jobTitle, jobDescription, f) ==
    /\ Len(inv) < MaxInvocations
    /\ isProcessing' = TRUE
    /\ statusText' = t("upload.status.uploading")
    /\ inv' = Append(inv, NewInvocation(companyName, jobTitle, jobDescription, f))
    /\ Delegate("fs.upload")
    /\ UNCHANGED <<windowPuter, file, location, kv, nextUuid>>

\* Mutant: the file is checked before the text fields.
ValidationAlert_FileFirst(companyName, jobTitle, jobDescription, f) ==
    IF ~f.present THEN <<"upload.errors.fileRequired">>
    ELSE IF Trim(companyName) = <<>> THEN <<"upload.errors.companyNameRequired">>
    ELSE IF Trim(jobTitle) = <<>> THEN <<"upload.errors.jobTitleRequired">>
    ELSE IF Trim(jobDescription) = <<>> THEN <<"upload.errors.jobDescriptionRequired">>
    ELSE <<>>

\* The first required input that is missing, as the alert naming it.
ValidationAlert(companyName, jobTitle, jobDescription, f) ==
    IF Trim(companyName) = <<>> THEN <<"upload.errors.companyNameRequired">>
    ELSE IF Trim(jobTitle) = <<>> THEN <<"upload.errors.jobTitleRequired">>
    ELSE IF Trim(jobDescription) = <<>> THEN <<"upload.errors.jobDescriptionRequired">>
    ELSE IF ~f.present THEN <<"upload.errors.fileRequired">>
    ELSE <<>>

handleSubmit(companyName, jobTitle, jobDescription) ==
    /\ FormRendered
    /\ UNCHANGED <<cacheVars, extraVars, listVars>>
    /\ LET missing == ValidationAlert(companyName, jobTitle, jobDescription, file) IN
        /\ alerts' = missing
        /\ IF missing # <<>>
           THEN UNCHANGED <<windowPuter, file, isProcessing, statusText, location, inv,
                            kv, nextUuid, delegated>>
           ELSE StartAnalyze(companyName, jobTitle, jobDescription, file)

\* Mutant: the flag is cleared after the try body and in the catch, but not
\* on the early returns.
ExitAnalyze_NoFinally(i, kind, status) ==
    /\ statusText' = status
    /\ isProcessing' = IF kind = "abort" THEN isProcessing ELSE FALSE
    /\ inv' = [inv EXCEPT ![i].pc = "done", ![i].exit = kind,
                          ![i].failedAt = Last(inv[i].steps)]

\* The catch or an early return, followed by the finally block.
ExitAnalyze(i, kind, status) ==
    /\ statusText' = status
    /\ isProcessing' = FALSE
    /\ inv' = [inv EXCEPT ![i].pc = "done", ![i].exit = kind,
                          ![i].failedAt = Last(inv[i].steps)]

\* Mutant: the falsy check of step 1 lacks its return.
FsUploadFileSettles_NoReturn(i, outcome) ==
    /\ inv[i].pc = "fsUpload1"
    /\ LET r == Unwrap(fsUpload(Available(i), outcome)) IN
        IF r.threw THEN
            /\ ExitAnalyze(i, "throw", CatchStatus(r.thrown))
            /\ UNCHANGED <<location, kv, nextUuid, delegated>>
        ELSE
            /\ statusText' = t("upload.status.converting")
            /\ inv' = [inv EXCEPT ![i].pc = "convert",
                                  ![i].uploadedFileResult = r.value,
                                  ![i].resolved = IF r.value.truthy
                                                  THEN Append(@, "fsUpload1") ELSE @,
                                  ![i].steps = Append(@, "convert")]
            /\ UNCHANGED <<isProcessing, location, kv, nextUuid, delegated>>
    /\ UNCHANGED <<windowPuter, file, alerts, cacheVars, extraVars, listVars>>

\* Mutant: a failed upload of step 1 is issued again instead of ending the
\* invocation.
FsUploadFileSettles_Retry(i, outcome) ==
    /\ inv[i].pc = "fsUpload1"
    /\ LET r == Unwrap(fsUpload(Available(i), outcome)) IN
        IF r.threw \/ ~r.value.truthy THEN
            /\ inv' = [inv EXCEPT ![i].gateway = Append(@, HasPuter),
                                  ![i].steps = Append(@, "fsUpload1")]
            /\ Delegate("fs.upload")
            /\ UNCHANGED <<isProcessing, statusText, location, kv, nextUuid>>
        ELSE
            /\ statusText' = t("upload.status.converting")
            /\ inv' = [inv EXCEPT ![i].pc = "convert",
                                  ![i].uploadedFileResult = r.value,
                                  ![i].resolved = Append(@, "fsUpload1"),
                                  ![i].steps = Append(@, "convert")]
            /\ UNCHANGED <<isProcessing, location, kv, nextUuid, delegated>>
    /\ UNCHANGED <<windowPuter, file, alerts, cacheVars, extraVars, listVars>>

\* Step 1 resolves: the uploaded file's result is checked, step 2 starts.
FsUploadFileSettles(i, outcome) ==
    /\ inv[i].pc = "fsUpload1"
    /\ LET r == Unwrap(fsUpload(Available(i), outcome)) IN
        IF r.threw THEN
            /\ ExitAnalyze(i, "throw", CatchStatus(r.thrown))
            /\ UNCHANGED <<location, kv, nextUuid, delegated>>
        ELSE IF ~r.value.truthy THEN
            /\ ExitAnalyze(i, "abort", t("upload.errors.uploadFailed"))
            /\ UNCHANGED <<location, kv, nextUuid, delegated>>
        ELSE
            /\ statusText' = t("upload.status.converting")
            /\ inv' = [inv EXCEPT ![i].pc = "convert",
                                  ![i].uploadedFileResult = r.value,
                                  ![i].resolved = Append(@, "fsUpload1"),
                                  ![i].steps = Append(@, "convert")]
            /\ UNCHANGED <<isProcessing, location, kv, nextUuid, delegated>>
    /\ UNCHANGED <<windowPuter, file, alerts, cacheVars, extraVars, listVars>>

\* Step 2 resolves: the rasterized file is checked, step 3 starts.
ConvertSettles(i, imageFile) ==
    /\ inv[i].pc = "convert"
    /\ IF ~imageFile.file.present THEN
            /\ ExitAnalyze(i, "abort", t("upload.errors.convertFailed"))
            /\ UNCHANGED delegated
       ELSE
            /\ statusText' = t("upload.status.uploadingImage")
            /\ inv' = [inv EXCEPT ![i].pc = "fsUpload2",
                                  ![i].gateway = Append(@, HasPuter),
                                  ![i].imageFile = imageFile.file,
                                  ![i].resolved = Append(@, "convert"),
                                  ![i].steps = Append(@, "fsUpload2")]
            /\ Delegate("fs.upload")
            /\ UNCHANGED isProcessing
    /\ UNCHANGED <<windowPuter, file, location, alerts, kv, nextUuid, cacheVars, extraVars, listVars>>

\* Mutant: the falsy check of step 3 lacks its return.
FsUploadImageSettles_NoReturn(i, outcome) ==
    /\ inv[i].pc = "fsUpload2"
    /\ LET r == Unwrap(fsUpload(Available(i), outcome)) IN
        IF r.threw THEN
            /\ ExitAnalyze(i, "throw", CatchStatus(r.thrown))
            /\ UNCHANGED <<nextUuid, delegated>>
        ELSE
            LET uuid == nextUuid
                data == [id |-> uuid,
                         resumePath |-> inv[i].uploadedFileResult.payload,
                         imagePath |-> r.value.payload,
                         companyName |-> inv[i].companyName,
                         jobTitle |-> inv[i].jobTitle,
                         jobDescription |-> inv[i].jobDescription,
                         feedback |-> EmptyFeedback]
            IN
            /\ statusText' = t("upload.status.preparing")
            /\ nextUuid' = nextUuid + 1
            /\ inv' = [inv EXCEPT ![i].pc = "kvSet1",
                                  ![i].gateway = Append(@, HasPuter),
                                  ![i].uploadedImageResult = r.value,
                                  ![i].uuid = uuid,
                                  ![i].data = data,
                                  ![i].resolved = Append(@, "fsUpload2"),
                                  ![i].steps = Append(@, "kvSet1"),
                                  ![i].kvSets = Append(@, [key |-> ResumeKey(uuid),
                                                           value |-> JSONStringify(data)])]
            /\ Delegate("kv.set")
            /\ UNCHANGED isProcessing
    /\ UNCHANGED <<windowPuter, file, location, alerts, kv, cacheVars, extraVars, listVars>>

\* Step 3 resolves: the image's result is checked, the record is built and
\* step 4 issues the first kvSet.
FsUploadImageSettles(i, outcome) ==
    /\ inv[i].pc = "fsUpload2"
    /\ LET r == Unwrap(fsUpload(Available(i), outcome)) IN
        IF r.threw THEN
            /\ ExitAnalyze(i, "throw", CatchStatus(r.thrown))
            /\ UNCHANGED <<nextUuid, delegated>>
        ELSE IF ~r.value.truthy THEN
            /\ ExitAnalyze(i, "abort", t("upload.errors.imageUploadFailed"))
            /\ UNCHANGED <<nextUuid, delegated>>
        ELSE
            LET uuid == nextUuid
                data == [id |-> uuid,
                         resumePath |-> inv[i].uploadedFileResult.payload,
                         imagePath |-> r.value.payload,
                         companyName |-> inv[i].companyName,
                         jobTitle |-> inv[i].jobTitle,
                         jobDescription |-> inv[i].jobDescription,
                         feedback |-> EmptyFeedback]
            IN
            /\ statusText' = t("upload.status.preparing")
            /\ nextUuid' = nextUuid + 1
            /\ inv' = [inv EXCEPT ![i].pc = "kvSet1",
                                  ![i].gateway = Append(@, HasPuter),
                                  ![i].uploadedImageResult = r.value,
                                  ![i].uuid = uuid,
                                  ![i].data = data,
                                  ![i].resolved = Append(@, "fsUpload2"),
                                  ![i].steps = Append(@, "kvSet1"),
                                  ![i].kvSets = Append(@, [key |-> ResumeKey(uuid),
                                                           value |-> JSONStringify(data)])]
            /\ Delegate("kv.set")
            /\ UNCHANGED isProcessing
    /\ UNCHANGED <<windowPuter, file, location, alerts, kv, cacheVars, extraVars, listVars>>

\* puter.kv.set(key, value) having resolved: the store holds value under key.
KvPut(store, key, value) ==
    [k \in DOMAIN store \cup {key} |-> IF k = key THEN value ELSE store[k]]

\* The store after the kvSet the invocation awaits has settled.
KvAfter(i, outcome) ==
    IF Available(i) /\ outcome.kind = "resolve"
    THEN KvPut(kv, Last(inv[i].kvSets).key, Last(inv[i].kvSets).value)
    ELSE kv

\* Step 4 resolves: step 5 asks for the AI feedback.
KvSetRecordSettles(i, outcome) ==
    /\ inv[i].pc = "kvSet1"
    /\ kv' = KvAfter(i, outcome)
    /\ LET r == Unwrap(kvSet(Available(i), outcome)) IN
        IF r.threw THEN
            /\ ExitAnalyze(i, "throw", CatchStatus(r.thrown))
            /\ UNCHANGED delegated
        ELSE
            /\ statusText' = t("upload.status.analyzing")
            /\ inv' = [inv EXCEPT ![i].pc = "aiFeedback",
                                  ![i].gateway = Append(@, HasPuter),
                                  ![i].resolved = Append(@, "kvSet1"),
                                  ![i].steps = Append(@, "aiFeedback")]
            /\ Delegate("ai.chat")
            /\ UNCHANGED isProcessing
    /\ UNCHANGED <<windowPuter, file, location, alerts, nextUuid, cacheVars, extraVars, listVars>>

\* Step 5 resolves: the result is checked, step 6 parses the feedback text and
\* step 7 issues the second kvSet.
AiFeedbackSettles(i, outcome) ==
    /\ inv[i].pc = "aiFeedback"
    /\ LET r == Unwrap(aiFeedback(Available(i), outcome)) IN
        IF r.threw THEN
            /\ ExitAnalyze(i, "throw", CatchStatus(r.thrown))
            /\ UNCHANGED delegated
        ELSE IF ~r.value.truthy THEN
            /\ ExitAnalyze(i, "abort", t("upload.errors.analysisFailed"))
            /\ UNCHANGED delegated
        ELSE
            LET feedbackText == r.value.payload
                parsed == JSONParse(feedbackText)
                started == [inv EXCEPT ![i].resolved = Append(@, "aiFeedback"),
                                       ![i].steps = Append(@, "parse")]
            IN
            IF parsed.threw THEN
                /\ statusText' = CatchStatus(parsed.thrown)
                /\ isProcessing' = FALSE
                /\ inv' = [started EXCEPT ![i].pc = "done", ![i].exit = "throw",
                                          ![i].failedAt = "parse"]
                /\ UNCHANGED delegated
            ELSE
                LET data == [inv[i].data EXCEPT !.feedback = parsed.value] IN
                /\ inv' = [started EXCEPT ![i].pc = "kvSet2",
                                          ![i].gateway = Append(@, HasPuter),
                                          ![i].data = data,
                                          ![i].resolved = Append(@, "parse"),
                                          ![i].steps = Append(@, "kvSet2"),
                                          ![i].kvSets = Append(@, [key |-> ResumeKey(inv[i].uuid),
                                                                   value |-> JSONStringify(data)])]
                /\ Delegate("kv.set")
                /\ UNCHANGED <<isProcessing, statusText>>
    /\ UNCHANGED <<windowPuter, file, location, alerts, kv, nextUuid, cacheVars, extraVars, listVars>>

\* Mutant: the second kvSet is awaited without unwrap, so its failure is lost.
KvSetFinalSettles_NoUnwrap(i, outcome) ==
    /\ inv[i].pc = "kvSet2"
    /\ kv' = KvAfter(i, outcome)
    /\ statusText' = t("upload.status.complete")
    /\ location' = <<"/resume/", inv[i].uuid>>
    /\ isProcessing' = FALSE
    /\ inv' = [inv EXCEPT ![i].pc = "done", ![i].exit = "success",
                          ![i].steps = Append(@, "navigate")]
    /\ UNCHANGED <<windowPuter, file, alerts, nextUuid, delegated, cacheVars, extraVars, listVars>>

\* Step 7 resolves: step 8 navigates to the results view.
KvSetFinalSettles(i, outcome) ==
    /\ inv[i].pc = "kvSet2"
    /\ kv' = KvAfter(i, outcome)
    /\ LET r == Unwrap(kvSet(Available(i), outcome)) IN
        IF r.threw THEN
            /\ ExitAnalyze(i, "throw", CatchStatus(r.thrown))
            /\ UNCHANGED location
        ELSE
            /\ statusText' = t("upload.status.complete")
            /\ location' = <<"/resume/", inv[i].uuid>>
            /\ isProcessing' = FALSE
            /\ inv' = [inv EXCEPT ![i].pc = "done", ![i].exit = "success",
                                  ![i].resolved = Append(@, "kvSet2"),
                                  ![i].steps = Append(@, "navigate")]
    /\ UNCHANGED <<windowPuter, file, alerts, nextUuid, delegated, cacheVars, extraVars, listVars>>

\* The ways the call an invocation awaits can settle.
Outcomes(i, all) == IF Available(i) THEN all ELSE {NoCall}

Next ==
    \/ SetWindowPuter
    \/ \E f \in Files : handleFileSelect(f)
    \/ \E c \in CompanyNames, j \in JobTitles, d \in JobDescriptions : handleSubmit(c, j, d)
    \/ \E i \in 1..Len(inv) : \E o \in Outcomes(i, UploadOutcomes(inv[i].file)) :
           FsUploadFileSettles(i, o)
    \/ \E i \in 1..Len(inv) : \E r \in ConvertResults(inv[i].file) : ConvertSettles(i, r)
    \/ \E i \in 1..Len(inv) : \E o \in Outcomes(i, UploadOutcomes(inv[i].imageFile)) :
           FsUploadImageSettles(i, o)
    \/ \E i \in 1..Len(inv) : \E o \in Outcomes(i, KvSetOutcomes) : KvSetRecordSettles(i, o)
    \/ \E i \in 1..Len(inv) : \E o \in Outcomes(i, ChatOutcomes) : AiFeedbackSettles(i, o)
    \/ \E i \in 1..Len(inv) : \E o \in Outcomes(i, KvSetOutcomes) : KvSetFinalSettles(i, o)

-----------------------------------------------------------------------------
(* The cached kvList query and the mutations of the key-value store *)

ListKeys == {ResumeKey(n) : n \in 1..MaxKeys}
KvMutations == {"kvSet", "kvDelete", "kvFlush"}

\* What puter.kv.list("resume:*", true) resolves to: the entries the store
\* holds, identified here by their keys.
KeyList(store) == [truthy |-> TRUE, shape |-> "list", payload |-> DOMAIN store]
KvListOutcomes == {Resolve(KeyList(kv))} \cup Rejections

\* The store after the capability function of a mutation has resolved.
KvApply(ep, store, key) ==
    CASE ep = "kvSet" -> KvPut(store, key, "record")
      [] ep = "kvDelete" -> [k \in DOMAIN store \ {key} |-> store[k]]
      [] ep = "kvFlush" -> [k \in {} |-> "record"]

\* A component subscribes to kvList({ pattern: "resume:*" }): a fulfilled
\* cache entry is served as it is, otherwise the queryFn runs and its data is
\* cached.
KvListRead(outcome) ==
    /\ IF queryCache.status = "fulfilled"
       THEN /\ lastRead' = [source |-> "cache", result |-> Data(queryCache.data)]
            /\ UNCHANGED queryCache
       ELSE LET res == QueryFn(HasPuter, IF HasPuter THEN outcome ELSE NoCall,
                               Fallback("kvList")) IN
            /\ lastRead' = [source |-> "fetch", result |-> res]
            /\ queryCache' = IF res.isError THEN NoCacheEntry
                              ELSE [status |-> "fulfilled", data |-> res.data]
    /\ UNCHANGED <<windowPuter, uploadVars, cacheVars, extraVars>>

\* kvSet, kvDelete or kvFlush runs to its end: the delegated call changes the
\* store when it resolves, and the entry of kvList is removed if the endpoint
\* invalidates a tag the entry provides.
KvMutation(ep, key, outcome) ==
    /\ kv' = IF HasPuter /\ outcome.kind = "resolve" THEN KvApply(ep, kv, key) ELSE kv
    /\ queryCache' = Invalidated(ep, queryCache)
    /\ UNCHANGED <<windowPuter, file, isProcessing, statusText, location, alerts, inv,
                   nextUuid, delegated, cacheVars, extraVars, lastRead>>

\* The unused entry is dropped once its retention time is over.
CacheEntryExpires ==
    /\ queryCache.status = "fulfilled"
    /\ queryCache' = NoCacheEntry
    /\ UNCHANGED <<windowPuter, uploadVars, cacheVars, extraVars, lastRead>>

\* The kvList query, the mutations of the store and the mutations that
\* invalidate the AuthStatus tag.
ListNext ==
    \/ SetWindowPuter
    \/ \E o \in KvListOutcomes : KvListRead(o)
    \/ \E ep \in KvMutations, key \in ListKeys, o \in KvSetOutcomes : KvMutation(ep, key, o)
    \/ CacheEntryExpires
    \/ \E ep \in {"signOut"} : Initiate(ep)
    \/ \E o \in DelegatedOutcomes(call.ep) : DelegatedSettles(o)

\* The endpoints called on their own, outside the pipeline.
CacheNext ==
    \/ SetWindowPuter
    \/ \E ep \in Endpoints : Initiate(ep)
    \/ \E o \in DelegatedOutcomes(call.ep) : DelegatedSettles(o)
    \/ InitiateInit
    \/ InitPollTick
    \/ InitTimeoutFires
    \/ \E k \in 1..Len(authChecks) :
           \E o \in {Resolve(True), Resolve(Falsy)} \cup AllRejections : IsSignedInSettles(k, o)
    \/ \E k \in 1..Len(authChecks) :
           \E o \in {Resolve(Alice), Resolve(Falsy)} \cup AllRejections : GetUserSettles(k, o)

-----------------------------------------------------------------------------
(* app/lib/puterApiSlice.ts: kvGet, a query endpoint, and its cache entries *)

\* What puter.kv.get(key) resolves with: the stored value, or null.
KvNull == [truthy |-> FALSE, shape |-> "null", payload |-> ""]
KvGetOutcomes(key, available) ==
    IF available
    THEN {Resolve(IF key \in DOMAIN kv THEN [truthy |-> TRUE, shape |-> "string",
                                             payload |-> kv[key]]
                  ELSE KvNull)} \cup Rejections
    ELSE {NoCall}

\* The entry of a request that has just started: the queryFn has run up to its
\* await, so the delegated call is made if the gateway is there.
Started(entry) ==
    [status |-> "pending", result |-> entry.result, cached |-> entry.cached,
     available |-> HasPuter]

\* Mutant: a caller arriving while the request is in flight starts a second
\* one.
KvGetRead_NoDedup(key) ==
    LET entry == getCache[key] IN
    IF entry.status # "pending" /\ entry.cached
    THEN /\ lastGet' = [key |-> key, status |-> entry.status, result |-> entry.result,
                        requested |-> FALSE]
         /\ UNCHANGED <<getCache, getCalls>>
    ELSE /\ getCalls[key] < MaxGetCalls
         /\ getCache' = [getCache EXCEPT ![key] = Started(entry)]
         /\ getCalls' = [getCalls EXCEPT ![key] = @ + (IF HasPuter THEN 1 ELSE 0)]
         /\ lastGet' = [key |-> key, status |-> "pending", result |-> entry.result,
                        requested |-> TRUE]

\* A component calls useKvGetQuery(key): an entry that is pending, or that
\* holds a fulfilled result, is shared with the caller; any other starts a
\* request.
KvGetRead(key) ==
    LET entry == getCache[key] IN
    IF entry.status = "pending" \/ entry.cached
    THEN /\ lastGet' = [key |-> key, status |-> entry.status, result |-> entry.result,
                        requested |-> FALSE]
         /\ UNCHANGED <<getCache, getCalls>>
    ELSE /\ getCalls[key] < MaxGetCalls
         /\ getCache' = [getCache EXCEPT ![key] = Started(entry)]
         /\ getCalls' = [getCalls EXCEPT ![key] = @ + (IF HasPuter THEN 1 ELSE 0)]
         /\ lastGet' = [key |-> key, status |-> "pending", result |-> entry.result,
                        requested |-> TRUE]

KvGetCall(key) ==
    /\ KvGetRead(key)
    /\ UNCHANGED <<windowPuter, uploadVars, cacheVars, listVars, libVars, routeVars,
                   wipeVars>>

\* The queryFn of kvGet returns: the entry takes its result.
KvGetSettles(key, outcome) ==
    /\ getCache[key].status = "pending"
    /\ LET res == QueryFn(getCache[key].available, outcome, Fallback("kvGet")) IN
        getCache' = [getCache EXCEPT ![key] =
                        [status |-> IF res.isError THEN "rejected" ELSE "fulfilled",
                         result |-> res, cached |-> getCache[key].cached \/ ~res.isError,
                         available |-> FALSE]]
    /\ UNCHANGED <<windowPuter, uploadVars, cacheVars, listVars, getCalls, lastGet,
                   libVars, routeVars, wipeVars>>

\* refetch() on a settled entry starts a new request and keeps the old result
\* until it settles.
KvGetRefetch(key) ==
    /\ getCache[key].status \in {"fulfilled", "rejected"}
    /\ getCalls[key] < MaxGetCalls
    /\ getCache' = [getCache EXCEPT ![key] = Started(getCache[key])]
    /\ getCalls' = [getCalls EXCEPT ![key] = @ + (IF HasPuter THEN 1 ELSE 0)]
    /\ UNCHANGED <<windowPuter, uploadVars, cacheVars, listVars, lastGet, libVars,
                   routeVars, wipeVars>>

\* A settled entry without subscribers is dropped once its retention time is
\* over.
KvGetEntryExpires(key) ==
    /\ getCache[key].status \in {"fulfilled", "rejected"}
    /\ getCache' = [getCache EXCEPT ![key] = NoQueryEntry]
    /\ UNCHANGED <<windowPuter, uploadVars, cacheVars, listVars, getCalls, lastGet,
                   libVars, routeVars, wipeVars>>

QueryNext ==
    \/ SetWindowPuter
    \/ \E key \in GetKeys : KvGetCall(key)
    \/ \E key \in GetKeys :
           \E o \in KvGetOutcomes(key, getCache[key].available) : KvGetSettles(key, o)
    \/ \E key \in GetKeys : KvGetRefetch(key)
    \/ \E key \in GetKeys : KvGetEntryExpires(key)
    \/ \E ep \in KvMutations, key \in GetKeys, o \in {Resolve(True)} : KvMutation(ep, key, o)

-----------------------------------------------------------------------------
(* app/lib/puter.ts and app/lib/pdf2Img.ts: the calls *)

\* The page runs in another global context.
SetContext(ctx) ==
    /\ context' = ctx
    /\ windowPuter' = (Accessor(ctx).value # "null")
    /\ UNCHANGED <<uploadVars, cacheVars, listVars, queryVars, accessed, raster, routeVars,
                   wipeVars>>

\* getPuter() is called.
CallGetPuter ==
    /\ accessed' = Accessor(context)
    /\ UNCHANGED <<windowPuter, uploadVars, cacheVars, listVars, queryVars, context, raster,
                   routeVars, wipeVars>>

LibFrame ==
    UNCHANGED <<windowPuter, uploadVars, cacheVars, listVars, queryVars, context, accessed,
                routeVars, wipeVars>>

Finish(result) == raster' = [raster EXCEPT !.pc = "done", !.result = result]

\* convertPdfToImage(file) up to its first await: the bytes are asked for.
ConvertStart(name) ==
    /\ raster.pc \in {"idle", "done"}
    /\ raster' = [RasterIdle EXCEPT !.pc = "read", !.name = name,
                                    !.calls = <<"arrayBuffer">>]
    /\ LibFrame

\* file.arrayBuffer() settles; the document is then loaded.
ReadSettles(err) ==
    /\ raster.pc = "read"
    /\ IF err = "none"
       THEN raster' = [raster EXCEPT !.pc = "load", !.calls = Append(@, "getDocument")]
       ELSE Finish(ConversionFailed(err))
    /\ LibFrame

\* getDocument settles; the first page is then fetched.
LoadSettles(err) ==
    /\ raster.pc = "load"
    /\ IF err = "none"
       THEN raster' = [raster EXCEPT !.pc = "page", !.calls = Append(@, "getPage")]
       ELSE Finish(ConversionFailed(err))
    /\ LibFrame

\* Mutant: the page is rendered whether or not there is a 2D context.
PageSettles_NoContextCheck(err, has2d) ==
    /\ raster.pc = "page"
    /\ IF err = "none"
       THEN raster' = [raster EXCEPT !.pc = "render",
                                     !.context2d = IF has2d THEN "available" ELSE "null",
                                     !.calls = @ \o <<"getContext", "render">>]
       ELSE Finish(ConversionFailed(err))
    /\ LibFrame

\* getPage settles: the canvas is created and asked for its 2D context; without
\* one the function returns, with one the page is rendered.
PageSettles(err, has2d) ==
    /\ raster.pc = "page"
    /\ IF err = "none"
       THEN IF has2d
            THEN raster' = [raster EXCEPT !.pc = "render", !.context2d = "available",
                                          !.calls = @ \o <<"getContext", "render">>]
            ELSE raster' = [raster EXCEPT !.pc = "done", !.context2d = "null",
                                          !.calls = Append(@, "getContext"),
                                          !.result = CanvasNotSupported]
       ELSE Finish(ConversionFailed(err))
    /\ LibFrame

\* The render task settles; the canvas is then serialized.
RenderSettles(err) ==
    /\ raster.pc = "render"
    /\ IF err = "none"
       THEN raster' = [raster EXCEPT !.pc = "blob", !.calls = Append(@, "toBlob")]
       ELSE Finish(ConversionFailed(err))
    /\ LibFrame

\* The callback of canvas.toBlob runs, with a blob or with null.
BlobSettles(hasBlob) ==
    /\ raster.pc = "blob"
    /\ Finish(IF hasBlob THEN Converted(raster.name) ELSE NoBlob)
    /\ LibFrame

LibNext ==
    \/ \E ctx \in GlobalContexts : SetContext(ctx)
    \/ CallGetPuter
    \/ \E name \in FileNames : ConvertStart(name)
    \/ \E err \in {"none"} \cup ReadErrors : ReadSettles(err)
    \/ \E err \in {"none"} \cup LoadErrors : LoadSettles(err)
    \/ \E err \in {"none"} \cup LoadErrors, has2d \in BOOLEAN : PageSettles(err, has2d)
    \/ \E err \in {"none"} \cup RenderErrors : RenderSettles(err)
    \/ \E hasBlob \in BOOLEAN : BlobSettles(hasBlob)

\* The slice's actions dispatched on their own, the thunk, and the endpoints
\* that dispatch them.
SliceNext ==
    \/ SetWindowPuter
    \/ \E user \in {NullUser, Alice} : DispatchSetUser(user)
    \/ \E ready \in BOOLEAN : DispatchSetPuter(ready)
    \/ DispatchCheckAuthStatus
    \/ \E ep \in {"signIn", "signOut", "refreshUser"} : Initiate(ep)
    \/ \E o \in DelegatedOutcomes(call.ep) : DelegatedSettles(o)
    \/ InitiateInit
    \/ InitPollTick
    \/ InitTimeoutFires
    \/ \E k \in 1..Len(authChecks) :
           \E o \in {Resolve(True), Resolve(Falsy)} \cup AllRejections : IsSignedInSettles(k, o)
    \/ \E k \in 1..Len(authChecks) :
           \E o \in {Resolve(Alice), Resolve(Falsy)} \cup AllRejections : GetUserSettles(k, o)

-----------------------------------------------------------------------------
(* app/routes: the guard effects *)

IsAuthRoute(loc) == loc[1] = "/auth?next="
IsResumeRoute(loc) == loc[1] = "/resume/"

\* The dependency array of the mounted route's guard effect.
CurrentDeps ==
    CASE location = Home -> <<auth.isAuthenticated>>
      [] location = WipeRoute -> <<puterReady, auth.isAuthenticated>>
      [] IsResumeRoute(location) -> <<resumeLoading, auth.isAuthenticated>>
      [] IsAuthRoute(location) -> <<auth.isAuthenticated>>
      [] OTHER -> <<>>

\* Mutant: Wipe redirects before puter is ready.
Redirects_WipeNotReady ==
    CASE location = Home -> ~auth.isAuthenticated
      [] location = WipeRoute -> ~auth.isAuthenticated
      [] IsResumeRoute(location) -> ~resumeLoading /\ ~auth.isAuthenticated
      [] IsAuthRoute(location) -> auth.isAuthenticated
      [] OTHER -> FALSE

\* The condition under which the mounted route's guard navigates.
Redirects ==
    CASE location = Home -> ~auth.isAuthenticated
      [] location = WipeRoute -> puterReady /\ ~auth.isAuthenticated
      [] IsResumeRoute(location) -> ~resumeLoading /\ ~auth.isAuthenticated
      [] IsAuthRoute(location) -> auth.isAuthenticated
      [] OTHER -> FALSE

\* Where the guard navigates to.
RedirectTarget ==
    IF IsAuthRoute(location) THEN NextOf(location) ELSE AuthRoute(location)

\* A route is mounted: its guard effect is still to run, and Resume starts
\* loading unless its data is cached.
Mount(route) ==
    /\ location' = route
    /\ effectDeps' = NotRun
    /\ resumeLoading' \in (IF IsResumeRoute(route) THEN BOOLEAN ELSE {FALSE})

RouteFrame ==
    UNCHANGED <<windowPuter, file, isProcessing, statusText, alerts, inv, kv, nextUuid,
                delegated, cacheVars, listVars, queryVars, libVars, wipeVars>>

\* The user opens one of the application's routes.
Visit(route) ==
    /\ route # location
    /\ Mount(route)
    /\ RouteFrame

\* The guard effect runs, after the mount and after a render in which one of
\* its dependencies has changed.
RunGuard ==
    /\ location # UploadRoute
    /\ ~effectDeps.ran \/ effectDeps.deps # CurrentDeps
    /\ IF Redirects
       THEN Mount(RedirectTarget)
       ELSE /\ effectDeps' = [ran |-> TRUE, deps |-> CurrentDeps]
            /\ UNCHANGED <<location, resumeLoading>>
    /\ RouteFrame

\* Resume: one of its queries starts or stops loading.
SetResumeLoading(loading) ==
    /\ IsResumeRoute(location)
    /\ resumeLoading' = loading
    /\ UNCHANGED <<windowPuter, uploadVars, cacheVars, listVars, queryVars, libVars,
                   effectDeps, wipeVars>>

RouteNext ==
    \/ \E route \in Targets : Visit(route)
    \/ RunGuard
    \/ \E loading \in BOOLEAN : SetResumeLoading(loading)
    \/ \E user \in {NullUser, Alice} : DispatchSetUser(user)
    \/ \E ready \in BOOLEAN : DispatchSetPuter(ready)

-----------------------------------------------------------------------------
(* app/routes/wipe.tsx: handleDelete *)

WipeFrame ==
    UNCHANGED <<windowPuter, file, isProcessing, statusText, location, alerts, inv,
                nextUuid, delegated, cacheVars, listVars, queryVars, libVars, routeVars>>

Issued(fn, arg) == [fn |-> fn, arg |-> arg]
WipeOutcomes == IF wipe.available THEN {Resolve(True)} \cup Rejections ELSE {NoCall}

\* The fsReadir query gives its data while no wipe is running.
FilesLoaded(list) ==
    /\ wipe.pc = "idle"
    /\ list # wipeFiles
    /\ wipeFiles' = list
    /\ UNCHANGED <<wipe, kv>>
    /\ WipeFrame

\* Mutant: the catch of handleDelete, without the finally that clears the flag.
WipeCatch_NoFinally(error, exit) ==
    [wipe EXCEPT !.pc = "idle",
                 !.deleteStatus =
                     <<"Error: ", IF error.isError THEN error.message
                                  ELSE "Unknown error occurred">>,
                 !.exit = exit]

\* The catch of handleDelete and its finally.
WipeCatch(error, exit) ==
    [wipe EXCEPT !.pc = "idle",
                 !.isDeleting = FALSE,
                 !.deleteStatus =
                     <<"Error: ", IF error.isError THEN error.message
                                  ELSE "Unknown error occurred">>,
                 !.exit = exit]

\* handleDelete up to its first await: the early return on an empty list,
\* otherwise the flag, the status and the first fsDelete.
handleDelete ==
    /\ wipe.pc = "idle"
    /\ wipe.runs < MaxWipes
    /\ IF Len(wipeFiles) = 0
       THEN wipe' = [wipe EXCEPT !.deleteStatus = <<"No files to delete">>,
                                 !.list = <<>>, !.index = 0, !.log = <<>>,
                                 !.failed = <<>>, !.exit = "empty", !.runs = @ + 1]
       ELSE wipe' = [wipe EXCEPT !.pc = "fsDelete",
                                 !.isDeleting = TRUE,
                                 !.deleteStatus = <<"Deleting ", wipeFiles[1], "...">>,
                                 !.list = wipeFiles, !.index = 1,
                                 !.available = HasPuter,
                                 !.log = <<Issued("fsDelete", wipeFiles[1])>>,
                                 !.failed = <<>>, !.exit = "none", !.runs = @ + 1]
    /\ UNCHANGED <<wipeFiles, kv>>
    /\ WipeFrame

\* Mutant: without the inner try, a failed delete ends the loop in the outer
\* catch.
FsDeleteSettles_NoInnerCatch(outcome) ==
    /\ wipe.pc = "fsDelete"
    /\ LET r == Unwrap(QueryFn(wipe.available, outcome, Fallback("fsDelete")))
           settled == [wipe EXCEPT !.failed = Append(@, r.threw)]
       IN
       IF r.threw
       THEN wipe' = [settled EXCEPT !.pc = "idle", !.isDeleting = FALSE,
                                    !.deleteStatus = <<"Error: ", "Unknown error occurred">>,
                                    !.exit = "deleteFailed"]
       ELSE IF wipe.index < Len(wipe.list)
       THEN wipe' = [settled EXCEPT
                        !.index = @ + 1,
                        !.deleteStatus = <<"Deleting ", wipe.list[wipe.index + 1], "...">>,
                        !.available = HasPuter,
                        !.log = Append(@, Issued("fsDelete", wipe.list[wipe.index + 1]))]
       ELSE wipe' = [settled EXCEPT
                        !.pc = "kvFlush",
                        !.deleteStatus = <<"Clearing key-value store...">>,
                        !.available = HasPuter,
                        !.log = Append(@, Issued("kvFlush", ""))]
    /\ UNCHANGED <<wipeFiles, kv>>
    /\ WipeFrame

\* fsDelete(file.path).unwrap() settles: a failure is caught inside the loop;
\* the next file is deleted, or after the last one the store is flushed.
FsDeleteSettles(outcome) ==
    /\ wipe.pc = "fsDelete"
    /\ LET r == Unwrap(QueryFn(wipe.available, outcome, Fallback("fsDelete")))
           settled == [wipe EXCEPT !.failed = Append(@, r.threw)]
       IN
       IF wipe.index < Len(wipe.list)
       THEN wipe' = [settled EXCEPT
                        !.index = @ + 1,
                        !.deleteStatus = <<"Deleting ", wipe.list[wipe.index + 1], "...">>,
                        !.available = HasPuter,
                        !.log = Append(@, Issued("fsDelete", wipe.list[wipe.index + 1]))]
       ELSE wipe' = [settled EXCEPT
                        !.pc = "kvFlush",
                        !.deleteStatus = <<"Clearing key-value store...">>,
                        !.available = HasPuter,
                        !.log = Append(@, Issued("kvFlush", ""))]
    /\ UNCHANGED <<wipeFiles, kv>>
    /\ WipeFrame

\* kvFlush().unwrap() settles: a failure goes to the catch, otherwise the file
\* list is refetched.
KvFlushSettles(outcome) ==
    /\ wipe.pc = "kvFlush"
    /\ LET r == Unwrap(QueryFn(wipe.available, outcome, Fallback("kvFlush")))
           settled == [wipe EXCEPT !.failed = Append(@, r.threw)]
       IN
       /\ wipe' = IF r.threw
                  THEN [WipeCatch(r.thrown, "flushFailed") EXCEPT !.failed = settled.failed]
                  ELSE [settled EXCEPT !.pc = "refetch",
                                       !.deleteStatus = <<"Refreshing file list...">>,
                                       !.log = Append(@, Issued("refetch", ""))]
       /\ kv' = IF r.threw THEN kv ELSE KvApply("kvFlush", kv, "")
    /\ UNCHANGED wipeFiles
    /\ WipeFrame

\* refetchFiles() settles: it resolves with the new list, or it throws because
\* the query is no longer subscribed.
RefetchSettles(outcome, list) ==
    /\ wipe.pc = "refetch"
    /\ IF outcome.kind = "resolve"
       THEN /\ wipe' = [wipe EXCEPT !.pc = "idle",
                                    !.isDeleting = FALSE,
                                    !.deleteStatus = <<"App data wiped successfully!">>,
                                    !.failed = Append(@, FALSE),
                                    !.clearTimer = TRUE,
                                    !.exit = "success"]
            /\ wipeFiles' = list
       ELSE /\ wipe' = [WipeCatch(outcome.err, "refetchFailed") EXCEPT
                            !.failed = Append(wipe.failed, TRUE)]
            /\ UNCHANGED wipeFiles
    /\ UNCHANGED kv
    /\ WipeFrame

\* Three seconds after a successful wipe the status is cleared.
ClearStatus ==
    /\ wipe.clearTimer
    /\ wipe' = [wipe EXCEPT !.clearTimer = FALSE, !.deleteStatus = <<>>]
    /\ UNCHANGED <<wipeFiles, kv>>
    /\ WipeFrame

RefetchOutcomes ==
    {Resolve(True), Reject(Err("Cannot refetch a query that has not been started yet."))}

WipeNext ==
    \/ SetWindowPuter
    \/ \E list \in FileLists : FilesLoaded(list)
    \/ handleDelete
    \/ \E o \in WipeOutcomes : FsDeleteSettles(o)
    \/ \E o \in WipeOutcomes : KvFlushSettles(o)
    \/ \E o \in RefetchOutcomes, list \in FileLists : RefetchSettles(o, list)
    \/ ClearStatus

Spec == Init /\ [][Next]_vars
WipeSpec == Init /\ [][WipeNext]_vars
RouteSpec == Init /\ [][RouteNext]_vars
SliceSpec == Init /\ [][SliceNext]_vars
LibSpec == Init /\ [][LibNext]_vars
QuerySpec == Init /\ [][QueryNext]_vars
CacheSpec == Init /\ [][CacheNext]_vars
ListSpec == Init /\ [][ListNext]_vars

-----------------------------------------------------------------------------
(* Properties of the analysis pipeline *)

Invocations == 1..Len(inv)
Exited(i) == inv[i].exit # "running"
Failed(i) == inv[i].exit \in {"abort", "throw"}
IsPrefix(s, u) == Len(s) <= Len(u) /\ \A k \in 1..Len(s) : s[k] = u[k]

\* C1: the in-progress flag is set only while an invocation is running: once
\* every invocation that set it has exited, by success, by an explicit abort
\* or by an exception, the flag is clear.
C1_FlagClearedOnExit ==
    (\A i \in Invocations : Exited(i)) => ~isProcessing

\* An invocation that threw part-way (in step 6) and one that aborted have
\* both exited, and the flag is clear.
C1_Witness ==
    /\ \E i \in Invocations : inv[i].exit = "throw" /\ inv[i].failedAt = "parse"
    /\ \E i \in Invocations : inv[i].exit = "abort"
    /\ \A i \in Invocations : Exited(i)
    /\ ~isProcessing

\* C2: the steps of an invocation start in the fixed order, each after the
\* previous one has produced its result, and nothing starts after the step
\* that aborted or threw.
C2_StepsInOrder ==
    \A i \in Invocations :
        /\ IsPrefix(inv[i].steps, StepOrder)
        /\ IsPrefix(inv[i].resolved, inv[i].steps)
        /\ Len(inv[i].steps) <= Len(inv[i].resolved) + 1
        /\ ~Exited(i) => inv[i].pc = Last(inv[i].steps)
        /\ Failed(i) => /\ inv[i].failedAt = Last(inv[i].steps)
                        /\ Len(inv[i].resolved) = Len(inv[i].steps) - 1
        /\ inv[i].exit = "success" => inv[i].steps = StepOrder

\* One invocation ran all eight steps and another stopped at step 3.
C2_Witness ==
    /\ \E i \in Invocations : inv[i].steps = StepOrder
    /\ \E i \in Invocations :
           inv[i].exit = "abort" /\ inv[i].steps = <<"fsUpload1", "convert", "fsUpload2">>

TimeoutError == FailureObject("Puter.js failed to load within 10 seconds")

Latest == Len(inv)
StoredKey(i) == <<"resume:", inv[i].uuid>>
GenericError == <<"Error: ", "An unexpected error occurred">>

\* C4 as stated: an invocation whose step 1 found the gateway unavailable
\* starts no other step, ends with the upload-failure status and issues no
\* kvSet.
C4_Original ==
    \A i \in Invocations :
        ~inv[i].gateway[1] =>
            /\ inv[i].steps = <<"fsUpload1">>
            /\ inv[i].kvSets = <<>>
            /\ Exited(i) => inv[i].failedAt = "fsUpload1"
            /\ (Exited(i) /\ i = Latest) => statusText = t("upload.errors.uploadFailed")

\* C4 amended: an invocation whose step 1 found the gateway unavailable
\* starts no other step, issues no kvSet, and ends in the outer catch with
\* the status "Error: An unexpected error occurred".
C4_UnavailableAtStep1 ==
    \A i \in Invocations :
        ~inv[i].gateway[1] =>
            /\ inv[i].steps = <<"fsUpload1">>
            /\ inv[i].kvSets = <<>>
            /\ Exited(i) => inv[i].failedAt = "fsUpload1" /\ inv[i].exit = "throw"
            /\ (Exited(i) /\ i = Latest) => statusText = GenericError

\* The latest invocation found the gateway unavailable at step 1 and exited.
C4_Witness ==
    /\ Latest > 0
    /\ ~inv[Latest].gateway[1]
    /\ Exited(Latest)
    /\ DOMAIN kv = {}

\* C5: after aiFeedback returned a falsy result the record of step 4 is
\* stored under resume:<id> with empty feedback, and the invocation ended with
\* the analysis-failure status.
C5_FalsyFeedbackKeepsRecord ==
    \A i \in Invocations :
        (inv[i].exit = "abort" /\ inv[i].failedAt = "aiFeedback") =>
            /\ StoredKey(i) \in DOMAIN kv
            /\ kv[StoredKey(i)] = inv[i].kvSets[1].value
            /\ JsonField(kv[StoredKey(i)], "id") = inv[i].uuid
            /\ JsonField(kv[StoredKey(i)], "feedback") = EmptyFeedback
            /\ Len(inv[i].kvSets) = 1
            /\ i = Latest => statusText = t("upload.errors.analysisFailed")

\* The latest invocation aborted on a falsy aiFeedback result.
C5_Witness ==
    /\ Latest > 0
    /\ inv[Latest].exit = "abort"
    /\ inv[Latest].failedAt = "aiFeedback"
    /\ statusText = t("upload.errors.analysisFailed")

\* C6: when the feedback text is no valid JSON the invocation ends with
\* "Error: " followed by the parse error's message, issues no second kvSet,
\* and the record of step 4 keeps its empty feedback.
C6_ParseFailure ==
    \A i \in Invocations :
        (Exited(i) /\ Last(inv[i].steps) = "parse") =>
            /\ inv[i].exit = "throw"
            /\ Len(inv[i].kvSets) = 1
            /\ StoredKey(i) \in DOMAIN kv
            /\ JsonField(kv[StoredKey(i)], "feedback") = EmptyFeedback
            /\ i = Latest => statusText = <<"Error: ", JSONParse(NotJsonText).thrown.message>>

\* The latest invocation stopped in step 6.
C6_Witness ==
    /\ Latest > 0
    /\ Exited(Latest)
    /\ Last(inv[Latest].steps) = "parse"
    /\ delegated["kv.set"] = 1

\* C7: an invocation issues a kvSet only with a usable upload result, a
\* rasterized file and a usable image-upload result in hand; one that stops
\* in steps 1 to 3 issues none, and the store holds only what kvSets wrote.
C7_RecordAfterUploads ==
    /\ \A i \in Invocations :
        /\ inv[i].kvSets # <<>> =>
              /\ inv[i].uploadedFileResult.truthy
              /\ inv[i].imageFile.present
              /\ inv[i].uploadedImageResult.truthy
              /\ IsPrefix(<<"fsUpload1", "convert", "fsUpload2">>, inv[i].resolved)
        /\ (Exited(i) /\ Last(inv[i].steps) \in {"fsUpload1", "convert", "fsUpload2"}) =>
              inv[i].kvSets = <<>>
    /\ \A k \in DOMAIN kv :
           \E i \in Invocations : \E n \in 1..Len(inv[i].kvSets) :
               inv[i].kvSets[n].key = k /\ inv[i].kvSets[n].value = kv[k]

\* One invocation stopped in step 3 without a kvSet; another wrote a record.
C7_Witness ==
    /\ \E i \in Invocations :
           Exited(i) /\ Last(inv[i].steps) = "fsUpload2" /\ inv[i].kvSets = <<>>
    /\ \E i \in Invocations : StoredKey(i) \in DOMAIN kv

RecordFields == {"id", "resumePath", "imagePath", "companyName", "jobTitle", "jobDescription"}

\* C8: the page is at the results view of <id> only after an invocation's
\* second kvSet to resume:<id> was fulfilled; that write has the key of the
\* first and the same id, paths and job fields, and it is what the store holds.
C8_NavigateAfterFinalWrite ==
    location # <<"/upload">> =>
        \E i \in Invocations :
            /\ location = <<"/resume/", inv[i].uuid>>
            /\ inv[i].exit = "success"
            /\ Len(inv[i].kvSets) = 2
            /\ inv[i].kvSets[1].key = <<"resume:", inv[i].uuid>>
            /\ inv[i].kvSets[2].key = inv[i].kvSets[1].key
            /\ \A f \in RecordFields :
                   JsonField(inv[i].kvSets[2].value, f) = JsonField(inv[i].kvSets[1].value, f)
            /\ JsonField(inv[i].kvSets[1].value, "feedback") = EmptyFeedback
            /\ JsonField(inv[i].kvSets[2].value, "companyName") = inv[i].companyName
            /\ inv[i].kvSets[2].key \in DOMAIN kv
            /\ kv[inv[i].kvSets[2].key] = inv[i].kvSets[2].value

\* The pipeline has navigated to a results view.
C8_Witness ==
    /\ location # <<"/upload">>
    /\ \E i \in Invocations : inv[i].exit = "success" /\ inv[i].uuid = 2

\* The alert the claim expects: the first missing input in the order company
\* name, job title, job description, file.
FirstMissing(c, j, d, f) ==
    LET missing == <<Trim(c) = <<>>, Trim(j) = <<>>, Trim(d) = <<>>, ~f.present>>
        names == <<"upload.errors.companyNameRequired", "upload.errors.jobTitleRequired",
                   "upload.errors.jobDescriptionRequired", "upload.errors.fileRequired">>
        first == {k \in 1..4 : missing[k] /\ \A m \in 1..(k - 1) : ~missing[m]}
    IN  IF first = {} THEN <<>> ELSE <<names[CHOOSE k \in first : TRUE]>>

\* C9: a submit with a required input missing raises exactly one alert, the
\* one naming the first missing input, and starts no invocation, no delegated
\* call and no change of the page's state.
C9_ValidationShortCircuits ==
    [][\A c \in CompanyNames, j \in JobTitles, d \in JobDescriptions :
          (handleSubmit(c, j, d) /\ FirstMissing(c, j, d, file) # <<>>) =>
              /\ alerts' = FirstMissing(c, j, d, file)
              /\ Len(alerts') = 1
              /\ UNCHANGED <<inv, delegated, kv, isProcessing, statusText, location>>]_vars

\* A submit without a job title and without a file named the job title only.
C9_Witness ==
    /\ alerts = <<"upload.errors.jobTitleRequired">>
    /\ ~file.present
    /\ inv = <<>>
    /\ \A f \in DelegatedFns : delegated[f] = 0

AbortMessages ==
    {t("upload.errors.uploadFailed"), t("upload.errors.convertFailed"),
     t("upload.errors.imageUploadFailed"), t("upload.errors.analysisFailed")}
IsFailureMessage(text) == text \in AbortMessages \/ (text # <<>> /\ text[1] = "Error: ")

\* C10 as stated: after the latest invocation failed, the heading the user
\* sees is the abort message or the error-prefixed message.
C10_FailureStatusShown ==
    (Latest > 0 /\ Failed(Latest)) => IsFailureMessage(Heading)

\* The feedback of a stored record, and whether it is more than the ''
\* placeholder of step 4.
StoredFeedback(k) == JsonField(kv[k], "feedback")
HasFeedback(k) == StoredFeedback(k) # EmptyFeedback

\* C11 as stated: every stored record with non-empty feedback has a
\* feedback.overallScore within [0,100]; AI output outside that range is never
\* stored as feedback.
C11_StoredScoresInRange ==
    \A k \in DOMAIN kv :
        HasFeedback(k) =>
            /\ StoredFeedback(k).overallScore >= 0
            /\ StoredFeedback(k).overallScore <= 100

\* The steps that call an endpoint of the cache, and the endpoint each calls.
EndpointSteps == {"fsUpload1", "fsUpload2", "kvSet1", "aiFeedback", "kvSet2"}
StepEndpoint(step) ==
    CASE step \in {"fsUpload1", "fsUpload2"} -> "fsUpload"
      [] step \in {"kvSet1", "kvSet2"} -> "kvSet"
      [] step = "aiFeedback" -> "aiFeedback"
      [] OTHER -> "none"

\* The endpoint calls an invocation has issued, in order, and how many of them
\* went to endpoint ep.
IsEndpointStep(step) == step \in EndpointSteps
EndpointCalls(i) == SelectSeq(inv[i].steps, IsEndpointStep)
CallsOf(i, ep) ==
    Cardinality({n \in 1..Len(EndpointCalls(i)) : StepEndpoint(EndpointCalls(i)[n]) = ep})

\* The calls invocation i made on capability function f: its endpoint calls
\* that found the gateway.
DelegatedBy(i, f) ==
    Cardinality({n \in 1..Len(EndpointCalls(i)) :
                    /\ inv[i].gateway[n]
                    /\ CapabilityFn(StepEndpoint(EndpointCalls(i)[n])) = f})

RECURSIVE DelegatedUpTo(_, _)
DelegatedUpTo(n, f) == IF n = 0 THEN 0 ELSE DelegatedBy(n, f) + DelegatedUpTo(n - 1, f)

\* C12: an invocation calls fsUpload at most twice, aiFeedback at most once
\* and kvSet at most twice, and issues no step twice; an invocation that failed
\* is over at the step that failed; and the capability functions were called
\* exactly once per endpoint call that found the gateway, never again.
C12_NoRetries ==
    /\ \A i \in Invocations :
        /\ CallsOf(i, "fsUpload") <= 2
        /\ CallsOf(i, "aiFeedback") <= 1
        /\ CallsOf(i, "kvSet") <= 2
        /\ Len(EndpointCalls(i)) = Len(inv[i].gateway)
        /\ \A m, n \in 1..Len(inv[i].steps) : m # n => inv[i].steps[m] # inv[i].steps[n]
        /\ Failed(i) => inv[i].pc = "done" /\ inv[i].failedAt = Last(inv[i].steps)
    /\ \A f \in DelegatedFns : delegated[f] = DelegatedUpTo(Len(inv), f)

\* An invocation made all five endpoint calls and failed at the last one,
\* after another had failed at its first.
C12_Witness ==
    /\ Len(inv) = 2
    /\ inv[1].exit = "throw" /\ inv[1].failedAt = "fsUpload1" /\ inv[1].gateway[1]
    /\ inv[2].exit = "throw" /\ inv[2].failedAt = "kvSet2"
    /\ CallsOf(2, "fsUpload") = 2 /\ CallsOf(2, "kvSet") = 2
    /\ delegated["fs.upload"] = 3

Running == {i \in Invocations : ~Exited(i)}

-----------------------------------------------------------------------------
(* Properties of the endpoints *)

\* init's timeout callback has run.
TimeoutHasFired == ~timer.timeout /\ timer.now = InitTimeoutMs

\* C14 as stated: an init call does not remain pending once its timeout has
\* fired; by then it has succeeded or failed with the timeout error, whenever
\* the gateway became available.
C14_InitSettlesByTimeout ==
    (call.ep = "init" /\ TimeoutHasFired) =>
        /\ call.phase = "settled"
        /\ call.result \in {Data(Falsy), TimeoutError}

\* C15: when the timeout fires with the gateway still missing, init fails with
\* the timeout error; no poll that finds the gateway missing settles init;
\* init fails with no other error than the timeout error, which is not the
\* "Puter.js not available" failure, and only once the polling window is over.
C15_TimeoutFailure ==
    [][(call.ep = "init" /\ call.phase = "polling") =>
          /\ (InitTimeoutFires /\ ~HasPuter) =>
                call'.phase = "settled" /\ call'.result = TimeoutError
          /\ (InitPollTick /\ ~HasPuter) => call' = call
          /\ (call'.phase = "settled" /\ call'.result.isError) =>
                /\ call'.result = TimeoutError
                /\ call'.result # Failure(NotAvailable)
                /\ call'.result.error # NotAvailable
                /\ timer.now + PollIntervalMs >= InitTimeoutMs
                /\ timer'.now = InitTimeoutMs]_vars

\* init polled without the gateway and failed when the timeout fired.
C15_Witness ==
    /\ call.ep = "init"
    /\ call.phase = "settled"
    /\ call.result = TimeoutError
    /\ ~windowPuter
    /\ TimeoutHasFired

\* C16: init's interval and timeout are armed only while init is polling, so
\* neither is armed once init has settled; the interval is cleared when the
\* timeout has fired, and a poll callback runs only while init is polling.
C16_TimersClearedOnSettle ==
    /\ (timer.interval \/ timer.timeout) => call.ep = "init" /\ call.phase = "polling"
    /\ (call.ep = "init" /\ call.phase = "settled") => ~timer.interval /\ ~timer.timeout
    /\ TimeoutHasFired => ~timer.interval
    /\ ENABLED InitPollTick => call.phase = "polling"

\* init polled, found the gateway at a later poll and resolved with both
\* timers cleared.
C16_Witness ==
    /\ call.ep = "init"
    /\ call.phase = "settled"
    /\ ~call.available
    /\ ~call.result.isError
    /\ call.dispatched = <<"setPuter", "checkAuthStatus">>
    /\ ~timer.interval /\ ~timer.timeout

\* The message a thrown value carries: an Error's message; a thrown string
\* carries none.
HasMessage(e) == e.isError
ExpectedError(e, ep) == IF HasMessage(e) THEN e.message ELSE Fallback(ep)

C18_SignInRechecksAuth ==
    [][/\ \A o \in DelegatedOutcomes("signIn") :
            (call.ep = "signIn" /\ DelegatedSettles(o)) =>
                IF o.kind = "resolve"
                THEN /\ call'.dispatched = <<"checkAuthStatus">>
                     /\ ~call'.result.isError
                     /\ HasPuter => /\ Len(authChecks') = Len(authChecks) + 1
                                    /\ Last(authChecks').pc = "isSignedIn"
                ELSE /\ call'.dispatched = <<>>
                     /\ call'.result.isError
                     /\ UNCHANGED <<auth, authChecks, puterReady>>
       /\ (Initiate("signIn") /\ ~HasPuter) =>
                /\ call'.dispatched = <<>>
                /\ call'.result = Failure(NotAvailable)
                /\ UNCHANGED <<auth, authChecks, puterReady>>]_vars

\* signIn was fulfilled and the auth check it dispatched is in flight.
C18_Witness ==
    /\ call.ep = "signIn"
    /\ call.phase = "settled"
    /\ ~call.result.isError
    /\ call.dispatched = <<"checkAuthStatus">>
    /\ authChecks = <<[pc |-> "isSignedIn", awaited |-> FALSE]>>

\* C19: a signOut whose delegated call was fulfilled leaves the cached user
\* null and isAuthenticated false; a signOut whose delegated call threw, or
\* that found the gateway unavailable, leaves the auth state unchanged.
C19_SignOutClearsUser ==
    [][/\ \A o \in DelegatedOutcomes("signOut") :
            (call.ep = "signOut" /\ DelegatedSettles(o)) =>
                IF o.kind = "resolve"
                THEN /\ auth'.user = NullUser
                     /\ auth'.isAuthenticated = FALSE
                     /\ call'.dispatched = <<"setUser">>
                ELSE /\ auth' = auth
                     /\ call'.dispatched = <<>>
       /\ (Initiate("signOut") /\ ~HasPuter) => auth' = auth /\ call'.dispatched = <<>>]_vars

\* A session that had a cached user has signed out: the user is null.
C19_Witness ==
    /\ call.ep = "signOut"
    /\ call.phase = "settled"
    /\ ~call.result.isError
    /\ puterReady
    /\ auth = [user |-> NullUser, isAuthenticated |-> FALSE]

\* C20 as stated: a kvList read made after a fulfilled kvSet, kvDelete or
\* kvFlush changed the store does not return the list cached before the
\* mutation: it refetches, and so gives the keys the store holds now.
C20_ListRefetchedAfterMutation ==
    [][\A o \in KvListOutcomes :
          (KvListRead(o) /\ queryCache.status = "fulfilled"
                /\ queryCache.data.payload # DOMAIN kv) =>
              /\ lastRead'.source = "fetch"
              /\ ~lastRead'.result.isError => lastRead'.result.data.payload = DOMAIN kv]_vars

-----------------------------------------------------------------------------
(* Properties of the query endpoints *)

QueryTransitions ==
    {<<"uninitialized", "pending">>, <<"pending", "fulfilled">>, <<"pending", "rejected">>,
     <<"fulfilled", "pending">>, <<"rejected", "pending">>,
     <<"fulfilled", "uninitialized">>, <<"rejected", "uninitialized">>}

\* C21: a call of kvGet with the arguments of a request in flight, or of a
\* cached result, makes no delegated call and is given the entry's result: no
\* delegated call is made for a key whose request is pending, one is made for
\* a key with a cached result only by an explicit refetch, and a caller that
\* found the entry pending or cached did not start a request. An entry moves
\* only from uninitialized to pending, from pending to fulfilled or rejected,
\* and from there back to pending or, on expiry, to uninitialized.
C21_QueryDeduplicated ==
    [][\A key \in GetKeys :
          LET entry == getCache[key] IN
          /\ entry.status = "pending" => getCalls'[key] = getCalls[key]
          /\ (entry.cached /\ getCalls'[key] # getCalls[key]) =>
                 /\ entry.status \in {"fulfilled", "rejected"}
                 /\ lastGet' = lastGet
                 /\ getCache'[key].status = "pending"
          /\ (lastGet' # lastGet /\ lastGet'.key = key) =>
                 /\ lastGet'.result = entry.result
                 /\ lastGet'.requested = ~(entry.status = "pending" \/ entry.cached)
                 /\ ~lastGet'.requested => UNCHANGED <<getCache, getCalls>>
          /\ getCache'[key].status # entry.status =>
                 <<entry.status, getCache'[key].status>> \in QueryTransitions]_vars

\* A second caller arrived while the only request for the key was in flight,
\* and one delegated call has been made.
C21_Witness ==
    \E key \in GetKeys :
        /\ getCache[key].status = "pending"
        /\ getCalls[key] = 1
        /\ lastGet.key = key
        /\ ~lastGet.requested

-----------------------------------------------------------------------------
(* Properties of the rasterizer and of the gateway accessor *)

Finished == raster.pc = "done"
Made(fn) == \E k \in 1..Len(raster.calls) : raster.calls[k] = fn
NonEmptyText(error) == error.defined /\ \E k \in 1..Len(error.text) : error.text[k] # ""
IsSuccess(r) == r.file.present /\ r.imageUrl # "" /\ ~r.error.defined
IsFailure(r) == ~r.file.present /\ r.imageUrl = "" /\ NonEmptyText(r.error)

\* C22: every finished call of convertPdfToImage has returned, not thrown,
\* and its result is either a file with a non-empty imageUrl and no error, or
\* no file, an empty imageUrl and a non-empty error, never both and never
\* neither; so it is when reading, loading or rendering threw.
C22_RasterizerAlwaysReturns ==
    Finished =>
        /\ raster.result.kind = "return"
        /\ IsSuccess(raster.result) # IsFailure(raster.result)

\* Rendering threw, and the call returned the failure.
C22_Witness ==
    /\ Finished
    /\ Made("render")
    /\ ~Made("toBlob")
    /\ IsFailure(raster.result)

HasPdfSuffix(name) ==
    /\ Len(name) >= 4
    /\ SubSeq(name, Len(name) - 3, Len(name)) \in PdfSuffixes

\* C24: the file of a successful call is named after the input alone: the
\* input name without its last four characters when these are ".pdf" in any
\* mix of cases, the whole input name otherwise, followed by ".png".
C24_OutputNamedAfterInput ==
    (Finished /\ raster.result.file.present) =>
        raster.result.file.name =
            (IF HasPdfSuffix(raster.name)
             THEN SubSeq(raster.name, 1, Len(raster.name) - 4)
             ELSE raster.name) \o <<".", "p", "n", "g">>

\* "a.PdF" has become "a.png".
C24_Witness ==
    /\ Finished
    /\ raster.name = <<"a", ".", "P", "d", "F">>
    /\ raster.result.file.present
    /\ raster.result.file.name = <<"a", ".", "p", "n", "g">>

\* C25: a call of the accessor returns, and returns window.puter itself when
\* there is a window holding a capability object, and null in every other
\* context: no window, no puter property, puter null or another falsy value.
C25_AccessorReturnsObjectOrNull ==
    [][accessed' # accessed =>
          /\ accessed'.kind = "return"
          /\ accessed'.value =
                 (IF context.window /\ context.puter \in {"puterA", "puterB"}
                  THEN context.puter ELSE "null")]_vars

\* The accessor has returned null where there is no window.
C25_Witness ==
    /\ context = NoWindow
    /\ accessed = Returned("null")

-----------------------------------------------------------------------------
(* Properties of the slice *)

\* null and undefined are both no user.
IsUser(user) == user.shape \notin {"null", "undefined"}

\* C26: whatever sequence of setUser, setPuter, checkAuthStatus, signIn,
\* signOut, refreshUser and init has run, isAuthenticated is true exactly when
\* the cached user is a user; no step that changes puterReady changes the auth
\* state, and no step that changes the auth state changes puterReady.
C26_AuthFlagFollowsUser ==
    /\ [](auth.isAuthenticated <=> IsUser(auth.user))
    /\ [][/\ puterReady' # puterReady => auth' = auth
          /\ auth' # auth => puterReady' = puterReady]_vars

\* setUser and setPuter were dispatched on their own: a user is cached and
\* puter is ready, and no endpoint or thunk has run.
C26_Witness ==
    /\ auth = [user |-> Alice, isAuthenticated |-> TRUE]
    /\ puterReady
    /\ call = NoCallYet
    /\ authChecks = <<>>
    /\ lastCheck = NoCheck

\* C27: a checkAuthStatus thunk that ends after isSignedIn gave true has
\* called getUser and cached its result; one that ends after isSignedIn gave
\* false has cached null and has not called getUser; one that is rejected,
\* because the gateway was unavailable (no call made) or because isSignedIn
\* or getUser threw, carries the fixed message, the thrown Error's message or
\* the fallback, and has left the auth state as it was.
C27_CheckAuthStatusOutcomes ==
    [][lastCheck' # lastCheck =>
          LET check == lastCheck' IN
          CASE check.status = "fulfilled" /\ check.signedIn = "true" ->
                   /\ check.calls = <<"auth.isSignedIn", "auth.getUser">>
                   /\ auth'.user = check.user
            [] check.status = "fulfilled" /\ check.signedIn # "true" ->
                   /\ check.calls = <<"auth.isSignedIn">>
                   /\ auth'.user = NullUser
                   /\ ~auth'.isAuthenticated
            [] check.status = "rejected" ->
                   /\ auth' = auth
                   /\ check.cause = "unavailable" =>
                          check.calls = <<>> /\ check.payload = "Puter.js not available"
                   /\ check.cause = "thrown" =>
                          check.payload = (IF check.thrown.isError THEN check.thrown.message
                                           ELSE "Failed to check auth status")
            [] OTHER -> FALSE]_vars

\* An awaited check found the user signed in and cached what getUser gave.
C27_Witness ==
    /\ lastCheck.status = "fulfilled"
    /\ lastCheck.signedIn = "true"
    /\ lastCheck.user = Alice
    /\ auth = [user |-> Alice, isAuthenticated |-> TRUE]

-----------------------------------------------------------------------------
(* Properties of the routes *)

GuardSettled == effectDeps.ran /\ effectDeps.deps = CurrentDeps
OnAuthRoute(loc) == loc[1] = "/auth?next="
MustSignIn ==
    /\ location \in GuardedRoutes
    /\ ~auth.isAuthenticated
    /\ location = WipeRoute => puterReady
    /\ location[1] = "/resume/" => ~resumeLoading

\* C28: when the guard of Home, of Wipe with puter ready, or of Resume with
\* its loading over, runs for an unauthenticated user, it navigates to
\* /auth?next= followed by that route; when the guard of the auth route runs
\* for an authenticated user it navigates to what follows next=; in every
\* other case the guard leaves the location alone, so an authenticated user is
\* never sent to the auth route. Once the guard has run for the values now
\* rendered, the user is where the guard allows.
C28_GuardsRedirect ==
    /\ [](GuardSettled =>
             /\ ~MustSignIn
             /\ OnAuthRoute(location) => ~auth.isAuthenticated)
    /\ [][RunGuard =>
             /\ MustSignIn => location' = <<"/auth?next=">> \o location
             /\ (OnAuthRoute(location) /\ auth.isAuthenticated) =>
                    location' = Tail(location)
             /\ (~MustSignIn /\ ~(OnAuthRoute(location) /\ auth.isAuthenticated)) =>
                    location' = location
             /\ (auth.isAuthenticated /\ ~OnAuthRoute(location)) =>
                    ~OnAuthRoute(location')]_vars

\* The guard of Resume has sent an unauthenticated user to the auth route.
C28_Witness ==
    /\ location = <<"/auth?next=", "/resume/", "a1">>
    /\ ~auth.isAuthenticated

-----------------------------------------------------------------------------
(* Properties of the wipe *)

WipeRunning == wipe.pc # "idle"
WipeEnded == wipe.exit \notin {"none", "empty"}
ExpectedCall(k) ==
    IF k <= Len(wipe.list) THEN [fn |-> "fsDelete", arg |-> wipe.list[k]]
    ELSE IF k = Len(wipe.list) + 1 THEN [fn |-> "kvFlush", arg |-> ""]
    ELSE [fn |-> "refetch", arg |-> ""]

\* C29: the calls of a wipe are fsDelete for each file of the list, in the
\* order of the list, then one kvFlush, then the refetch; each call has
\* settled before the next is issued; and a wipe that has ended has issued
\* kvFlush, whichever of its deletes failed.
C29_DeletesThenOneFlush ==
    /\ Len(wipe.log) <= Len(wipe.list) + 2
    /\ \A k \in 1..Len(wipe.log) : wipe.log[k] = ExpectedCall(k)
    /\ Len(wipe.failed) = (IF WipeRunning THEN Len(wipe.log) - 1 ELSE Len(wipe.log))
    /\ WipeEnded => Len(wipe.log) >= Len(wipe.list) + 1

\* A wipe over two files has ended successfully although the delete of the
\* first file failed: the second delete and the flush were issued after it.
C29_Witness ==
    /\ wipe.exit = "success"
    /\ Len(wipe.list) = 2
    /\ wipe.failed = <<TRUE, FALSE, FALSE, FALSE>>
    /\ wipe.log[3].fn = "kvFlush"

\* C30: isDeleting is set exactly while a handleDelete call is suspended at
\* one of its awaits, which happens only for a non-empty list, so it is clear
\* after every exit; a call that found the list empty has issued no call and
\* has left the flag clear.
C30_FlagOnlyWhileWiping ==
    /\ wipe.isDeleting <=> WipeRunning
    /\ wipe.isDeleting => Len(wipe.list) > 0
    /\ wipe.exit = "empty" => (~wipe.isDeleting /\ wipe.log = <<>>)

\* A wipe ended in the catch because kvFlush failed, and the flag is clear.
C30_Witness ==
    /\ wipe.exit = "flushFailed"
    /\ Len(wipe.list) > 0
    /\ ~wipe.isDeleting
    /\ wipe.deleteStatus = <<"Error: ", "Unknown error occurred">>

\* handleDelete was called with an empty list.
C30_EmptyListWitness ==
    /\ wipe.exit = "empty"
    /\ wipe.deleteStatus = <<"No files to delete">>

====
